---- MODULE Spec2Model ----
(***************************************************************************)
(* assho: host/group model, tree projection, transactional store and the  *)
(* config codec.  The Bubble Tea model struct is the record m; each key    *)
(* handler is one action.  Files are the variables disk (canonical path)   *)
(* and tmp (the sibling ".tmp" path).                                      *)
(*                                                                         *)
(* Fields of Host that are only passed through (User, Port, IdentityFile)  *)
(* and HistoryEntry.Timestamp (wall clock, never read back by the code     *)
(* modelled here) are left out of the records.                             *)
(***************************************************************************)
EXTENDS Integers, Sequences, FiniteSets, TLC

VARIABLES
    m,              \* the model struct (part_005:29-69)
    disk,           \* content of the file at getConfigPath()
    tmp,            \* content of the file at getConfigPath() + ".tmp"
    storePassword,  \* result of shouldPersistPassword() for this process
    scans,          \* scanDockerContainers commands running / messages in flight
    ev,             \* observation of the last handled event: [op, save]
    savePc,         \* position inside a step-by-step saveConfig
    saveIn,         \* the arguments of the step-by-step saveConfig
    fnIn,           \* input of the last pure-function application
    fnOut,          \* its result
    profile         \* which bounds and input alphabets this behaviour explores

vars == <<m, disk, tmp, storePassword, scans, ev, savePc, saveIn, fnIn, fnOut,
          profile>>

\* ---------------------------------------------------------------- bounds
MaxHosts == 2
MaxGroups == 2
MaxContainers == 1
MaxScans == 1
MaxHistory == 2
MaxIDs == 4
MaxImportHosts == 5
MaxParseLines == 4
MaxFormHosts == 3
MaxFormIDs == 6

\* One behaviour explores the program with one profile: the bounds of the
\* store and the alphabets the inputs of the user are drawn from.
\*   hosts       two hosts, every alias input, groups made in the form, the import
\*   groups      two hosts, two groups, every group name input
\*   containers  one host, scans, containers, connections and the history
\*   secrets     one host, passwords, the keychain, every step of a save
\*               failing
\*   import      the import key alone, on up to five hosts
\*   form        the form alone, on up to three hosts with a container
Profiles == {"hosts", "groups", "containers", "secrets"}

HostBound ==
    CASE profile \in {"hosts", "groups"} -> MaxHosts
      [] profile = "import" -> MaxImportHosts
      [] profile = "form" -> MaxFormHosts
      [] OTHER -> MaxHosts - 1
GroupBound == IF profile \in {"hosts", "groups", "form"} THEN MaxGroups ELSE 0
ScanBound == IF profile = "containers" THEN MaxScans ELSE 0
HistoryBound == IF profile = "containers" THEN MaxHistory ELSE 0
IDBound ==
    CASE profile \in {"groups", "import"} -> MaxIDs
      [] profile = "form" -> MaxFormIDs
      [] profile = "containers" -> MaxIDs - 1
      [] OTHER -> MaxIDs - 2

\* ------------------------------------------------------- program constants
configVersion == 3
maxHistoryEntries == 50

\* ------------------------------------------------------------- strings
\* strings.ToLower on the strings the model uses.
ToLower(s) ==
    CASE s = "WEB" -> "web"
      [] s = "DB" -> "db"
      [] s = "PROD" -> "prod"
      [] s = "Localhost" -> "localhost"
      [] s = "Existing-Host" -> "existing-host"
      [] s = "EXISTING-HOST" -> "existing-host"
      [] s \in {"Host", "HOST"} -> "host"
      [] s = "HostName" -> "hostname"
      [] s = "User" -> "user"
      [] s = "Port" -> "port"
      [] s = "IdentityFile" -> "identityfile"
      [] s = "Match" -> "match"
      [] s = "ProxyJump" -> "proxyjump"
      [] s = "Copy" -> "copy"
      [] s = "Copy of web" -> "copy of web"
      [] OTHER -> s

\* strings.TrimSpace on the strings the model uses.
TrimSpace(s) ==
    CASE s = " prod " -> "prod"
      [] s = " web " -> "web"
      [] s = " " -> ""
      [] OTHER -> s

\* strings.EqualFold
EqualFold(a, b) == ToLower(a) = ToLower(b)

\* ------------------------------------------------------------- records
NoID == ""

\* Host{} literal with the given fields; everything else is the zero value.
NewHost(id, alias, hostname, password, groupID) ==
    [ID |-> id, Alias |-> alias, Hostname |-> hostname, Password |-> password,
     PasswordRef |-> "", GroupID |-> groupID, Containers |-> <<>>,
     IsContainer |-> FALSE, Expanded |-> FALSE, ParentID |-> "", ListIndent |-> 0,
     Port |-> <<>>]

NewGroup(id, name, expanded) == [ID |-> id, Name |-> name, Expanded |-> expanded]

NewEntry(hostID, alias) == [HostID |-> hostID, Alias |-> alias]

\* list.Item values: groupItem{Group} or Host
GroupItem(g) == [kind |-> "group", ID |-> g.ID, group |-> g]
HostItem(h) == [kind |-> "host", ID |-> h.ID, host |-> h]

\* nil *Host
NoHost == [kind |-> "nil"]

Range(s) == {s[i] : i \in 1..Len(s)}

Min(S) == CHOOSE x \in S : \A y \in S : x <= y

\* -------------------------------------------------------- finder helpers
\* Index of the first element of seq satisfying P, 0 when there is none
\* (the Go code returns -1; sequences here are 1-based).
FirstIndex(seq, P(_)) ==
    LET S == {i \in 1..Len(seq) : P(seq[i])}
    IN IF S = {} THEN 0 ELSE Min(S)

findHostIndexByID(hosts, id) == FirstIndex(hosts, LAMBDA h : h.ID = id)

findGroupIndexByID(groups, id) == FirstIndex(groups, LAMBDA g : g.ID = id)

findGroupByName(groups, name) ==
    LET target == ToLower(TrimSpace(name))
    IN IF target = "" THEN 0
       ELSE FirstIndex(groups, LAMBDA g : ToLower(TrimSpace(g.Name)) = target)

RemoveAt(seq, i) == SubSeq(seq, 1, i - 1) \o SubSeq(seq, i + 1, Len(seq))

Swap(seq, i, j) == [seq EXCEPT ![i] = seq[j], ![j] = seq[i]]

\* recordHistory as it would be without the filter on the host id.
recordHistoryNoFilter(hostID, alias, history) ==
    LET filtered == <<NewEntry(hostID, alias)>> \o history
    IN IF Len(filtered) > maxHistoryEntries
       THEN SubSeq(filtered, 1, maxHistoryEntries)
       ELSE filtered

\* ------------------------------------------------------------ history
recordHistory(hostID, alias, history) ==
    LET filtered == <<NewEntry(hostID, alias)>>
                    \o SelectSeq(history, LAMBDA e : e.HostID # hostID)
    IN IF Len(filtered) > maxHistoryEntries
       THEN SubSeq(filtered, 1, maxHistoryEntries)
       ELSE filtered

\* ------------------------------------------------------ tree projection
\* Concatenation of the sequences ss[1], ss[2], ...
RECURSIVE Concat(_)
Concat(ss) == IF ss = <<>> THEN <<>> ELSE Head(ss) \o Concat(Tail(ss))

\* Concatenation of F(seq[1]), F(seq[2]), ...: a loop that appends rows.
FlatMap(seq, F(_)) == Concat([i \in 1..Len(seq) |-> F(seq[i])])

\* The rows of one host as they would be if the containers of every host got
\* the indent of the containers of an ungrouped host.
HostRowsFlatIndent(h, indent) ==
    <<HostItem([h EXCEPT !.ListIndent = indent])>>
    \o (IF h.Expanded
        THEN [k \in 1..Len(h.Containers) |->
                 HostItem([h.Containers[k] EXCEPT !.ParentID = h.ID,
                                                  !.ListIndent = 1])]
        ELSE <<>>)

\* The rows of one host: the host, then its containers when it is expanded.
HostRows(h, indent) ==
    <<HostItem([h EXCEPT !.ListIndent = indent])>>
    \o (IF h.Expanded
        THEN [k \in 1..Len(h.Containers) |->
                 HostItem([h.Containers[k] EXCEPT !.ParentID = h.ID,
                                                  !.ListIndent = indent + 1])]
        ELSE <<>>)

\* flattenHosts as it would be with one pass over the hosts in stored order
\* after the group rows.
flattenHostsGroupsFirst(groups, hosts) ==
    LET ungrouped == FlatMap(hosts,
            LAMBDA h : IF h.GroupID # "" THEN <<>> ELSE HostRows(h, 0))
        grouped == FlatMap(groups,
            LAMBDA g : <<GroupItem(g)>>
                \o (IF ~g.Expanded THEN <<>>
                    ELSE FlatMap(hosts,
                        LAMBDA h : IF h.GroupID # g.ID THEN <<>> ELSE HostRows(h, 1))))
    IN grouped \o ungrouped

\* flattenHosts as it would be if it did not look at the expansion flag of
\* a group.
flattenHostsShowCollapsed(groups, hosts) ==
    LET ungrouped == FlatMap(hosts,
            LAMBDA h : IF h.GroupID # "" THEN <<>> ELSE HostRows(h, 0))
        grouped == FlatMap(groups,
            LAMBDA g : <<GroupItem(g)>>
                \o FlatMap(hosts,
                        LAMBDA h : IF h.GroupID # g.ID THEN <<>> ELSE HostRows(h, 1)))
    IN ungrouped \o grouped

flattenHosts(groups, hosts) ==
    LET ungrouped == FlatMap(hosts,
            LAMBDA h : IF h.GroupID # "" THEN <<>> ELSE HostRows(h, 0))
        grouped == FlatMap(groups,
            LAMBDA g : <<GroupItem(g)>>
                \o (IF ~g.Expanded THEN <<>>
                    ELSE FlatMap(hosts,
                        LAMBDA h : IF h.GroupID # g.ID THEN <<>> ELSE HostRows(h, 1))))
    IN ungrouped \o grouped

\* flattenAll, the full projection: as flattenHosts, with every group taken
\* as expanded and every host as expanded; a host whose group is not in the
\* list goes with the hosts of no group.
AllRows(h, indent) ==
    <<HostItem([h EXCEPT !.ListIndent = indent])>>
    \o [k \in 1..Len(h.Containers) |->
            HostItem([h.Containers[k] EXCEPT !.ParentID = h.ID,
                                             !.ListIndent = indent + 1])]

flattenAll(groups, hosts) ==
    LET listed == {groups[k].ID : k \in 1..Len(groups)}
        ungrouped == FlatMap(hosts,
            LAMBDA h : IF h.GroupID \in listed THEN <<>> ELSE AllRows(h, 0))
        grouped == FlatMap(groups,
            LAMBDA g : <<GroupItem(g)>>
                \o FlatMap(hosts,
                       LAMBDA h : IF h.GroupID # g.ID THEN <<>> ELSE AllRows(h, 1)))
    IN ungrouped \o grouped

\* ------------------------------------------------------------ identifiers
\* newHostID() returns 8 random bytes in hex.  The model draws the identifier
\* from a pool and takes one that occurs nowhere (memory, files, messages).
IDName(n) == "i" \o ToString(n)

IDPool == {IDName(n) : n \in 1..MaxIDs}

FreeIDs(used) == {n \in 1..IDBound : IDName(n) \notin used}

newHostID(used) == IDName(Min(FreeIDs(used)))

\* All identifiers of a host list, containers included.
RECURSIVE HostIDsOf(_)
HostIDsOf(hosts) ==
    IF hosts = <<>> THEN {}
    ELSE {Head(hosts).ID} \cup HostIDsOf(Head(hosts).Containers)
         \cup HostIDsOf(Tail(hosts))

\* ------------------------------------------------------------ keychain
\* The only non-empty password of the model.
Secret == "pw"

\* storePasswordSecret(ref, password) = nil?  storeOK is the set of refs for
\* which the keychain command succeeds.
storePasswordSecretOK(ref, password, storeOK) ==
    IF ref = "" \/ password = "" THEN TRUE ELSE ref \in storeOK

\* ------------------------------------------------------- host/group helpers
\* sanitizeHostsForSave as it would be if the policy were applied to the
\* top-level hosts alone and the containers were copied as they are.
sanitizeHostsForSaveTopOnly(hosts, persist, storeOK) ==
    [i \in 1..Len(hosts) |->
        LET h == hosts[i]
        IN IF ~persist
           THEN [h EXCEPT !.Password = "", !.PasswordRef = ""]
           ELSE IF h.Password # ""
                   /\ storePasswordSecretOK(h.ID, h.Password, storeOK)
                THEN [h EXCEPT !.PasswordRef = h.ID, !.Password = ""]
                ELSE h]

RECURSIVE sanitizeHostsForSave(_, _, _)
sanitizeHostsForSave(hosts, persist, storeOK) ==
    [i \in 1..Len(hosts) |->
        LET h == hosts[i]
            s1 == IF ~persist
                  THEN [h EXCEPT !.Password = "", !.PasswordRef = ""]
                  ELSE IF h.Password # ""
                          /\ storePasswordSecretOK(h.ID, h.Password, storeOK)
                       THEN [h EXCEPT !.PasswordRef = h.ID, !.Password = ""]
                       ELSE h
        IN IF Len(h.Containers) > 0
           THEN [s1 EXCEPT !.Containers =
                    sanitizeHostsForSave(h.Containers, persist, storeOK)]
           ELSE s1]

\* ensureHostIDs as it would be if it did not descend into the containers.
RECURSIVE ensureHostIDsTopOnly(_, _)
ensureHostIDsTopOnly(hosts, used) ==
    IF hosts = <<>> THEN [hosts |-> <<>>, changed |-> FALSE, used |-> used]
    ELSE LET h == Head(hosts)
             id == IF h.ID = "" THEN newHostID(used) ELSE h.ID
             rest == ensureHostIDsTopOnly(Tail(hosts), used \cup {id})
         IN [hosts |-> <<[h EXCEPT !.ID = id]>> \o rest.hosts,
             changed |-> (h.ID = "") \/ rest.changed,
             used |-> rest.used]

\* ensureHostIDs: [hosts, changed, used]; used collects the identifiers taken.
RECURSIVE ensureHostIDs(_, _)
ensureHostIDs(hosts, used) ==
    IF hosts = <<>> THEN [hosts |-> <<>>, changed |-> FALSE, used |-> used]
    ELSE LET h == Head(hosts)
             id == IF h.ID = "" THEN newHostID(used) ELSE h.ID
             kids == ensureHostIDs(h.Containers, used \cup {id})
             rest == ensureHostIDs(Tail(hosts), kids.used)
         IN [hosts |-> <<[h EXCEPT !.ID = id, !.Containers = kids.hosts]>>
                        \o rest.hosts,
             changed |-> (h.ID = "") \/ kids.changed \/ rest.changed,
             used |-> rest.used]

RECURSIVE ensureGroupIDs(_, _)
ensureGroupIDs(groups, used) ==
    IF groups = <<>> THEN [groups |-> <<>>, changed |-> FALSE, used |-> used]
    ELSE LET g == Head(groups)
             id == IF g.ID = "" THEN newHostID(used) ELSE g.ID
             rest == ensureGroupIDs(Tail(groups), used \cup {id})
         IN [groups |-> <<[g EXCEPT !.ID = id]>> \o rest.groups,
             changed |-> (g.ID = "") \/ rest.changed,
             used |-> rest.used]

\* hydrateHostPasswords; lookupOK is the set of refs lookupPasswordSecret finds.
RECURSIVE hydrateHostPasswords(_, _)
hydrateHostPasswords(hosts, lookupOK) ==
    [i \in 1..Len(hosts) |->
        LET h == hosts[i]
            h1 == IF h.Password = "" /\ h.PasswordRef # ""
                     /\ h.PasswordRef \in lookupOK
                  THEN [h EXCEPT !.Password = Secret]
                  ELSE h
        IN [h1 EXCEPT !.Containers = hydrateHostPasswords(h.Containers, lookupOK)]]

\* ------------------------------------------------------------- codec
\* json.Marshal of a Host: the fields tagged json:"-" (Expanded, ParentID,
\* ListIndent) are not written.
RECURSIVE EncodeHosts(_)
EncodeHosts(hosts) ==
    [i \in 1..Len(hosts) |->
        [ID |-> hosts[i].ID, Alias |-> hosts[i].Alias,
         Hostname |-> hosts[i].Hostname, Password |-> hosts[i].Password,
         PasswordRef |-> hosts[i].PasswordRef, GroupID |-> hosts[i].GroupID,
         Containers |-> EncodeHosts(hosts[i].Containers),
         IsContainer |-> hosts[i].IsContainer, Port |-> hosts[i].Port]]

\* json.Unmarshal into []Host as it would be if the containers were not
\* read.
DecodeHostsFlat(enc) ==
    [i \in 1..Len(enc) |->
        [ID |-> enc[i].ID, Alias |-> enc[i].Alias,
         Hostname |-> enc[i].Hostname, Password |-> enc[i].Password,
         PasswordRef |-> enc[i].PasswordRef, GroupID |-> enc[i].GroupID,
         Containers |-> <<>>,
         IsContainer |-> enc[i].IsContainer,
         Expanded |-> FALSE, ParentID |-> "", ListIndent |-> 0,
         Port |-> enc[i].Port]]

\* json.Unmarshal into []Host: the unwritten fields get their zero values.
RECURSIVE DecodeHosts(_)
DecodeHosts(enc) ==
    [i \in 1..Len(enc) |->
        [ID |-> enc[i].ID, Alias |-> enc[i].Alias,
         Hostname |-> enc[i].Hostname, Password |-> enc[i].Password,
         PasswordRef |-> enc[i].PasswordRef, GroupID |-> enc[i].GroupID,
         Containers |-> DecodeHosts(enc[i].Containers),
         IsContainer |-> enc[i].IsContainer,
         Expanded |-> FALSE, ParentID |-> "", ListIndent |-> 0,
         Port |-> enc[i].Port]]

\* configFile, marshalled
configFile(version, groups, hosts, history) ==
    [Version |-> version, Groups |-> groups, Hosts |-> EncodeHosts(hosts),
     History |-> history]

\* File contents: no file, an empty file, a strict prefix of the bytes of a
\* document, or all bytes of a document.
Absent == [kind |-> "absent"]
EmptyFile == [kind |-> "empty"]
PartialFile(doc) == [kind |-> "partial", doc |-> doc]
FullFile(doc) == [kind |-> "full", doc |-> doc]

\* Other contents a file can be found with: the JSON text null, a JSON
\* array of hosts (the old hosts-only format), a JSON text of another type
\* (a number, a string), and a file that os.Open refuses for a reason other
\* than its absence.
NullFile == [kind |-> "null"]
ListFile(hosts) == [kind |-> "list", hosts |-> EncodeHosts(hosts)]
ScalarFile == [kind |-> "scalar"]
DeniedFile == [kind |-> "denied"]

\* The temp file is only ever truncated, written and renamed within one call
\* of saveConfig, and no code reads it.  Once saveConfig has returned, what a
\* failed call left there is a leftover whose bytes no later step depends on.
Leftover == [kind |-> "leftover"]

\* The steps of saveConfig on the two paths, fs = [disk, tmp].
SaveSteps == <<"mkdir", "create", "write", "close", "rename">>

FailPoints == {"none"} \cup Range(SaveSteps)

\* os.Create(tmpPath): truncates or creates the temp file.
StepCreate(fs) == [fs EXCEPT !.tmp = EmptyFile]

\* f.Write as it would be if f were the canonical file.
StepWriteInPlace(fs, doc, ok) ==
    [fs EXCEPT !.disk = IF ok THEN FullFile(doc) ELSE PartialFile(doc),
               !.tmp = IF ok THEN FullFile(doc) ELSE PartialFile(doc)]

\* f.Write(bytes): all bytes, or on error some of them.
StepWrite(fs, doc, ok) ==
    [fs EXCEPT !.tmp = IF ok THEN FullFile(doc) ELSE PartialFile(doc)]

\* os.Rename(tmpPath, path)
StepRename(fs) == [disk |-> fs.tmp, tmp |-> Absent]

\* The document saveConfig marshals.
SaveDoc(groups, hosts, history, persist, storeOK) ==
    configFile(configVersion, groups,
               sanitizeHostsForSave(hosts, persist, storeOK), history)

\* saveConfig as it would be if it wrote to the canonical path itself and
\* not to a temp file: once the write has begun the canonical file holds the
\* new bytes, whatever fails afterwards.
saveConfigInPlace(groups, hosts, history, persist, storeOK, fail, fs) ==
    LET doc == SaveDoc(groups, hosts, history, persist, storeOK)
    IN CASE fail \in {"mkdir", "create"} ->
              [disk |-> fs.disk, tmp |-> fs.tmp, err |-> TRUE]
         [] fail = "write" -> [disk |-> PartialFile(doc), tmp |-> fs.tmp, err |-> TRUE]
         [] fail \in {"close", "rename"} ->
              [disk |-> FullFile(doc), tmp |-> fs.tmp, err |-> TRUE]
         [] OTHER -> [disk |-> FullFile(doc), tmp |-> fs.tmp, err |-> FALSE]

\* saveConfig run to its return; fail names the step that returns an error.
\* Result: [disk, tmp, err].
saveConfig(groups, hosts, history, persist, storeOK, fail, fs) ==
    LET doc == SaveDoc(groups, hosts, history, persist, storeOK)
        fs1 == StepCreate(fs)
        fs2 == StepWrite(fs1, doc, TRUE)
    IN CASE fail = "mkdir" -> [disk |-> fs.disk, tmp |-> fs.tmp, err |-> TRUE]
         [] fail = "create" -> [disk |-> fs.disk, tmp |-> fs.tmp, err |-> TRUE]
         [] fail = "write" ->
              LET f == StepWrite(fs1, doc, FALSE)
              IN [disk |-> f.disk, tmp |-> Leftover, err |-> TRUE]
         [] fail = "close" -> [disk |-> fs2.disk, tmp |-> Leftover, err |-> TRUE]
         [] fail = "rename" -> [disk |-> fs2.disk, tmp |-> Leftover, err |-> TRUE]
         [] OTHER ->
              LET f == StepRename(fs2)
              IN [disk |-> f.disk, tmp |-> f.tmp, err |-> FALSE]

\* json.Unmarshal(bytes, &cfg) into a zero configFile: a JSON object fills
\* the fields it names, the JSON text null leaves the value as it is and is
\* no error, anything else is an error.
unmarshalConfig(file) ==
    CASE file.kind = "full" -> [ok |-> TRUE, cfg |-> file.doc]
      [] file.kind = "null" -> [ok |-> TRUE, cfg |-> configFile(0, <<>>, <<>>, <<>>)]
      [] OTHER -> [ok |-> FALSE, cfg |-> configFile(0, <<>>, <<>>, <<>>)]

\* json.Unmarshal(bytes, &hosts) into a nil []Host: a JSON array gives its
\* hosts, the JSON text null leaves the slice nil and is no error, anything
\* else is an error.
unmarshalHosts(file) ==
    CASE file.kind = "list" -> [ok |-> TRUE, hosts |-> DecodeHosts(file.hosts)]
      [] file.kind = "null" -> [ok |-> TRUE, hosts |-> <<>>]
      [] OTHER -> [ok |-> FALSE, hosts |-> <<>>]

\* loadConfig on the canonical file alone (no legacy file):
\* [groups, hosts, history, err].
loadConfig(file, lookupOK, used) ==
    LET c == unmarshalConfig(file)
        l == unmarshalHosts(file)
    IN CASE file.kind = "absent" ->
            [groups |-> <<>>,
             hosts |-> <<[NewHost(newHostID(used), "Localhost", "127.0.0.1", "", "")
                             EXCEPT !.Port = <<"2", "2">>]>>,
             history |-> <<>>, err |-> FALSE]
      [] file.kind = "denied" ->
            [groups |-> <<>>, hosts |-> <<>>, history |-> <<>>, err |-> TRUE]
      [] c.ok /\ (c.cfg.Version > 0 \/ Len(c.cfg.Hosts) > 0
                  \/ Len(c.cfg.Groups) > 0) ->
            [groups |-> c.cfg.Groups,
             hosts |-> hydrateHostPasswords(DecodeHosts(c.cfg.Hosts), lookupOK),
             history |-> c.cfg.History, err |-> FALSE]
      [] l.ok ->
            [groups |-> <<>>, hosts |-> hydrateHostPasswords(l.hosts, lookupOK),
             history |-> <<>>, err |-> FALSE]
      [] OTHER ->
            [groups |-> <<>>, hosts |-> <<>>, history |-> <<>>, err |-> TRUE]

\* loadConfig with the legacy path: the legacy file is opened when the
\* canonical file does not exist, and what it holds is saved at the canonical
\* path.  fs = [disk, tmp] are the canonical and the temp file, fail the step
\* of that save that returns an error.
\* Result: [groups, hosts, history, error, disk, tmp].
loadConfigPaths(legacy, lookupOK, used, persist, storeOK, fail, fs) ==
    LET loadedFromLegacy == fs.disk.kind = "absent" /\ legacy.kind # "absent"
        f == IF fs.disk.kind = "absent" THEN legacy ELSE fs.disk
        r == loadConfig(f, lookupOK, used)
        raw == loadConfig(f, {}, used)
        s == saveConfig(raw.groups, raw.hosts, raw.history, persist, storeOK,
                        fail, fs)
        out(error, after) ==
            [groups |-> r.groups, hosts |-> r.hosts, history |-> r.history,
             error |-> error, disk |-> after.disk, tmp |-> after.tmp]
    IN CASE f.kind = "denied" -> out("open failed", fs)
         [] r.err -> out("invalid config format", fs)
         [] loadedFromLegacy ->
              out(IF s.err THEN "migrated legacy config but failed to persist new path"
                  ELSE "", s)
         [] OTHER -> out("", fs)

\* ------------------------------------------------------------ the model
\* Input alphabets of the form, the group prompt, the scanner and the import.
AliasInputs == {"", "web", "WEB", " web ", "db"}
PasswordInputs == {"", Secret}
HostnameInputs == {"10.0.0.1"}
GroupNameInputs == {"", "prod", "PROD", " prod ", "dev"}
ContainerNames == {"app"}
ParsedBatches == {<<"db">>, <<"web", "WEB">>}
\* The text of the port input, character by character.
PortInputs ==
    {<<>>, <<"1">>, <<"2", "2">>, <<"2", "2", "2", "2">>, <<"6", "5", "5", "3", "5">>,
     <<"a", "b", "c">>, <<"0">>, <<"-", "1">>, <<"6", "5", "5", "3", "6">>,
     <<"9", "9", "9", "9", "9">>}

\* The keys the user of each profile presses, by the feature they belong to,
\* besides moving the cursor, leaving a view and quitting.
Features ==
    CASE profile = "hosts" -> {"form", "import", "export", "move", "delete"}
      [] profile = "groups" -> {"groups", "move", "delete"}
      [] profile = "containers" -> {"containers", "history", "delete"}
      [] profile = "import" -> {"import"}
      [] profile = "form" -> {"form"}
      [] OTHER -> {"form", "delete"}

Uses(feature) == feature \in Features

\* The alphabets of each profile.
Aliases ==
    CASE profile = "hosts" -> AliasInputs
      [] profile = "form" -> {"web", "api"}
      [] OTHER -> {"web"}
Passwords == IF profile = "secrets" THEN PasswordInputs ELSE {""}
Ports == IF profile = "secrets" THEN PortInputs ELSE {<<>>}
GroupNames ==
    CASE profile \in {"hosts", "groups"} -> GroupNameInputs
      [] profile = "form" -> {"", "dev"}
      [] OTHER -> {""}
Batches == IF profile = "hosts" THEN ParsedBatches ELSE {<<>>}
PersistChoices == IF profile = "secrets" THEN BOOLEAN ELSE {TRUE}
FailChoices == IF profile = "secrets" THEN FailPoints ELSE {"none", "mkdir"}

\* m.list.SelectedItem(): nil when the index is outside the items.
NoItem == [kind |-> "nil", ID |-> ""]

SelectedItem(mm) ==
    IF mm.cursor >= 1 /\ mm.cursor <= Len(mm.items) THEN mm.items[mm.cursor]
    ELSE NoItem

\* m.list.SetItems(flattenHosts(m.rawGroups, m.rawHosts)); the index stays.
SetItems(mm) == [mm EXCEPT !.items = flattenHosts(mm.rawGroups, mm.rawHosts)]

\* list.CursorUp / list.CursorDown on a single page (1-based index).
CursorUp(c, n) == IF c - 1 >= 1 THEN c - 1 ELSE 1

CursorDown(c, n) ==
    IF c + 1 <= n THEN c + 1
    ELSE IF c + 1 > n + 1 THEN 1
    ELSE IF n >= 1 THEN n ELSE 1

snapshot(mm) ==
    [rawGroups |-> mm.rawGroups, rawHosts |-> mm.rawHosts, history |-> mm.history]

\* The items of the history view: one row per distinct host id of the first
\* entries, at most 5 rows; a placeholder for a host that no longer exists.
HistoryRow(mm, entry) ==
    LET all == FlatMap(mm.rawHosts, LAMBDA h : <<h>> \o h.Containers)
        \* later map entries overwrite earlier ones: the last match wins
        S == {i \in 1..Len(all) : all[i].ID = entry.HostID}
    IN IF S # {}
       THEN HostItem(all[CHOOSE i \in S : \A j \in S : j <= i])
       ELSE HostItem(NewHost(entry.HostID, entry.Alias \o " (deleted)", "", "", ""))

RECURSIVE HistoryRowsFrom(_, _, _, _)
HistoryRowsFrom(mm, i, seen, rows) ==
    IF i > Len(mm.history) THEN rows
    ELSE LET entry == mm.history[i]
         IN IF entry.HostID \in seen THEN HistoryRowsFrom(mm, i + 1, seen, rows)
            ELSE LET rows1 == Append(rows, HistoryRow(mm, entry))
                 IN IF Len(rows1) >= 5 THEN rows1
                    ELSE HistoryRowsFrom(mm, i + 1, seen \cup {entry.HostID}, rows1)

rebuildHistoryList(mm) ==
    [mm EXCEPT !.historyItems = HistoryRowsFrom(mm, 1, {}, <<>>)]

\* restoreSnapshot as it would be if the history were left out of the
\* snapshot: groups and hosts are put back, the history is not.
restoreSnapshotKeepsHistory(mm, snap) ==
    rebuildHistoryList(SetItems(
        [mm EXCEPT !.rawGroups = snap.rawGroups, !.rawHosts = snap.rawHosts]))

restoreSnapshot(mm, snap) ==
    rebuildHistoryList(SetItems(
        [mm EXCEPT !.rawGroups = snap.rawGroups, !.rawHosts = snap.rawHosts,
                   !.history = snap.history]))

clearListDeleteConfirm(mm) ==
    [mm EXCEPT !.listDeleteArmed = FALSE, !.listDeleteID = "",
               !.listDeleteType = ""]

\* Passwords the keychain may be asked to store during a save of these hosts.
StoreRefs(hosts) == {hosts[i].ID : i \in {j \in 1..Len(hosts) : hosts[j].Password # ""}}

\* m.save() with the file system as it is now.
save(mm, storeOK, fail) ==
    saveConfig(mm.rawGroups, mm.rawHosts, mm.history, storePassword, storeOK,
               fail, [disk |-> disk, tmp |-> tmp])

\* Identifiers in use anywhere: a fresh identifier is none of them.
UsedIDs ==
    LET docIDs(f) == IF f.kind \in {"full", "partial"}
                     THEN HostIDsOf(f.doc.Hosts)
                          \cup {f.doc.Groups[i].ID : i \in 1..Len(f.doc.Groups)}
                          \cup {f.doc.History[i].HostID : i \in 1..Len(f.doc.History)}
                     ELSE {}
    IN HostIDsOf(m.rawHosts)
       \cup {m.rawGroups[i].ID : i \in 1..Len(m.rawGroups)}
       \cup {m.history[i].HostID : i \in 1..Len(m.history)}
       \cup {m.historyItems[i].ID : i \in 1..Len(m.historyItems)}
       \cup {m.items[i].ID : i \in 1..Len(m.items)}
       \cup {s.hostID : s \in scans}
       \cup {m.listDeleteID, m.groupTarget}
       \cup (IF m.selectedHost.kind = "nil" THEN {} ELSE {m.selectedHost.ID})
       \cup docIDs(disk) \cup docIDs(tmp)

\* initialModel(): the model built from the file at the canonical path.
initialModel(file, lookupOK, used) ==
    LET cfg == loadConfig(file, lookupOK, used)
        hs == ensureHostIDs(cfg.hosts, used \cup HostIDsOf(cfg.hosts))
        gs == ensureGroupIDs(cfg.groups, hs.used)
    IN [rawGroups |-> gs.groups, rawHosts |-> hs.hosts, history |-> cfg.history,
        items |-> flattenHosts(gs.groups, hs.hosts), cursor |-> 1,
        historyItems |-> <<>>,
        state |-> "list", selectedHost |-> NoHost,
        deleteFocus |-> FALSE, deleteArmed |-> FALSE,
        groupAction |-> "", groupTarget |-> "",
        listDeleteArmed |-> FALSE, listDeleteID |-> "", listDeleteType |-> "",
        statusMessage |-> "", statusIsError |-> FALSE,
        sshToRun |-> NoHost, quitting |-> FALSE, err |-> cfg.err]

Event(op, saved) == [op |-> op, save |-> saved, error |-> ""]

\* The event was refused before anything changed: error is the text the
\* handler puts into m.formError.  (The form view alone renders formError and
\* every way into the form clears it, so the field is kept here, as what the
\* last event reported, and not in m.)
Rejected(op, error) == [op |-> op, save |-> "none", error |-> error]

Idle == /\ savePc = "idle"
        /\ UNCHANGED <<savePc, saveIn, fnIn, fnOut>>

\* The program is running and in the given view.
InState(st) == ~m.quitting /\ m.sshToRun.kind = "nil" /\ m.state = st /\ Idle

\* ------------------------------------------------------- list view keys
\* The head of updateList: the status line is cleared and any key other
\* than d, x, esc disarms the delete confirmation.
ListPre(key) ==
    LET m1 == [m EXCEPT !.statusMessage = "", !.statusIsError = FALSE]
    IN IF m1.listDeleteArmed /\ key \notin {"d", "x", "esc"}
       THEN clearListDeleteConfirm(m1) ELSE m1

NoFileChange == UNCHANGED <<disk, tmp, storePassword, profile>>

\* q, ctrl+c
ListQuit ==
    /\ InState("list")
    /\ m' = [ListPre("q") EXCEPT !.quitting = TRUE]
    /\ ev' = Event("quit", "none")
    /\ NoFileChange /\ UNCHANGED scans

\* esc, and every key the view has no case for on the selected row
ListOtherKey ==
    /\ InState("list")
    /\ \E key \in {"esc", "other", "x", "d"} :
          /\ key = "x" => SelectedItem(m).kind # "group"
          /\ key = "d" => SelectedItem(m).kind = "nil"
          /\ m' = IF key = "esc" THEN clearListDeleteConfirm(ListPre(key))
                  ELSE ListPre(key)
          /\ ev' = Event(IF key \in {"x", "d"} THEN "deleteKey" ELSE key, "none")
    /\ NoFileChange /\ UNCHANGED scans

\* up, down: forwarded to the list widget
ListNavigate ==
    /\ InState("list")
    /\ \E down \in BOOLEAN :
          LET m1 == ListPre("nav")
          IN m' = [m1 EXCEPT !.cursor =
                      IF down THEN CursorDown(m1.cursor, Len(m1.items))
                      ELSE CursorUp(m1.cursor, Len(m1.items))]
    /\ ev' = Event("key", "none")
    /\ NoFileChange /\ UNCHANGED scans

\* The form opened by n, e, c.
OpenForm(mm, sel) ==
    [clearListDeleteConfirm(mm) EXCEPT !.state = "form", !.selectedHost = sel,
        !.deleteFocus = FALSE, !.deleteArmed = FALSE]

\* n
ListNew ==
    /\ InState("list") /\ Uses("form")
    /\ m' = OpenForm(ListPre("n"), NoHost)
    /\ ev' = Event("key", "none")
    /\ NoFileChange /\ UNCHANGED scans

\* e on a host row
ListEdit ==
    /\ InState("list") /\ Uses("form")
    /\ LET i == SelectedItem(m)
       IN /\ i.kind = "host" /\ ~i.host.IsContainer
          /\ m' = OpenForm(ListPre("e"), [kind |-> "host", ID |-> i.ID])
    /\ ev' = Event("key", "none")
    /\ NoFileChange /\ UNCHANGED scans

\* c on a host row: the form of a new host, prefilled with a copy
ListDuplicate ==
    /\ InState("list") /\ Uses("form")
    /\ LET i == SelectedItem(m)
       IN /\ i.kind = "host" /\ ~i.host.IsContainer
          /\ m' = OpenForm(ListPre("c"), NoHost)
    /\ ev' = Event("key", "none")
    /\ NoFileChange /\ UNCHANGED scans

\* enter, space on a group row; right / left on a group row
ListToggleGroup ==
    /\ InState("list") /\ Uses("groups")
    /\ LET i == SelectedItem(m)
           m1 == ListPre("enter")
           idx == findGroupIndexByID(m.rawGroups, i.ID)
       IN /\ i.kind = "group" /\ idx # 0
          /\ \E key \in {"enter", "right", "left"} :
                LET new == CASE key = "enter" -> ~m.rawGroups[idx].Expanded
                             [] key = "right" -> TRUE
                             [] OTHER -> FALSE
                IN m' = SetItems([m1 EXCEPT !.rawGroups[idx].Expanded = new])
    /\ ev' = Event("toggleGroup", "none")
    /\ NoFileChange /\ UNCHANGED scans

\* A scan command started for rawHosts[idx].
StartScan(idx) ==
    [hostIndex |-> idx, hostID |-> m.rawHosts[idx].ID]

\* space / left on a host row, right on a host row that has containers
ListToggleHost ==
    /\ InState("list") /\ Uses("containers")
    /\ LET i == SelectedItem(m)
           m1 == ListPre("space")
           idx == findHostIndexByID(m.rawHosts, i.ID)
       IN /\ i.kind = "host" /\ ~i.host.IsContainer /\ idx # 0
          /\ \E key \in {"space", "right", "left"} :
                /\ key = "right" =>
                      (m.rawHosts[idx].Expanded \/ Len(m.rawHosts[idx].Containers) > 0)
                /\ LET new == CASE key = "space" -> ~m.rawHosts[idx].Expanded
                                [] key = "right" -> TRUE
                                [] OTHER -> FALSE
                   IN m' = SetItems([m1 EXCEPT !.rawHosts[idx].Expanded = new])
    /\ ev' = Event("toggleHost", "none")
    /\ NoFileChange /\ UNCHANGED scans

\* right on a collapsed host row without containers (expand and scan), ctrl+d
ListScan ==
    /\ InState("list") /\ Uses("containers")
    /\ Cardinality(scans) < ScanBound
    /\ LET i == SelectedItem(m)
           m1 == ListPre("right")
           idx == findHostIndexByID(m.rawHosts, i.ID)
       IN /\ i.kind = "host" /\ ~i.host.IsContainer /\ idx # 0
          /\ \E key \in {"right", "ctrl+d"} :
                /\ key = "right" =>
                      (~m.rawHosts[idx].Expanded /\ Len(m.rawHosts[idx].Containers) = 0)
                /\ m' = IF key = "right"
                        THEN SetItems([m1 EXCEPT !.rawHosts[idx].Expanded = TRUE])
                        ELSE m1
          /\ scans' = scans \cup {StartScan(idx)}
    /\ ev' = Event("scan", "none")
    /\ NoFileChange

\* h
ListHistory ==
    /\ InState("list") /\ Uses("history")
    /\ m' = [rebuildHistoryList(ListPre("h")) EXCEPT !.state = "history"]
    /\ ev' = Event("history", "none")
    /\ NoFileChange /\ UNCHANGED scans

openGroupPrompt(mm, action, targetID) ==
    [mm EXCEPT !.state = "groupPrompt", !.groupAction = action,
               !.groupTarget = targetID]

\* g; r on a group row
ListGroupPrompt ==
    /\ InState("list") /\ Uses("groups")
    /\ \/ m' = openGroupPrompt(ListPre("g"), "create", "")
       \/ LET i == SelectedItem(m)
          IN /\ i.kind = "group"
             /\ m' = openGroupPrompt(ListPre("r"), "rename", i.ID)
    /\ ev' = Event("key", "none")
    /\ NoFileChange /\ UNCHANGED scans

\* ctrl+e: the host list is written to the external file, the model keeps
\* its data and shows the counts.
ListExport ==
    /\ InState("list") /\ Uses("export")
    /\ \E failed \in BOOLEAN :
          m' = [ListPre("ctrl+e") EXCEPT
                  !.statusMessage = IF failed THEN "cannot open SSH config"
                                    ELSE "Exported hosts",
                  !.statusIsError = failed]
    /\ ev' = Event("export", "none")
    /\ NoFileChange /\ UNCHANGED scans

\* ------------------------------------------------- list view: the store
\* The outcomes of the keychain calls of one save: the refs stored.
StoreChoices(hosts) == IF storePassword THEN SUBSET StoreRefs(hosts) ELSE {{}}

\* The files and the observation after a handler that saved with result r.
Saved(r, op) ==
    /\ disk' = r.disk
    /\ tmp' = r.tmp
    /\ ev' = [op |-> op, save |-> IF r.err THEN "fail" ELSE "ok",
              error |-> IF r.err THEN "save failed" ELSE ""]
    /\ UNCHANGED <<storePassword, profile>>

\* enter on a host row as it would be if the target were set before the
\* history is saved.
ListConnectBeforeSave ==
    /\ InState("list") /\ Uses("history")
    /\ LET i == SelectedItem(m)
           m1 == [clearListDeleteConfirm(ListPre("enter")) EXCEPT !.sshToRun = i]
           snap == snapshot(m1)
           m2 == [m1 EXCEPT !.history = recordHistory(i.ID, i.host.Alias, m1.history)]
       IN /\ i.kind = "host"
          /\ Len(m2.history) <= HistoryBound
          /\ \E fail \in FailChoices, storeOK \in StoreChoices(m2.rawHosts) :
                LET r == save(m2, storeOK, fail)
                IN /\ m' = IF r.err
                           THEN [restoreSnapshot(m2, snap) EXCEPT
                                   !.statusMessage = "Failed to save history",
                                   !.statusIsError = TRUE]
                           ELSE m2
                   /\ Saved(r, "connect")
    /\ UNCHANGED scans

\* enter on a host row; enter or space on a container row
ListConnect ==
    /\ InState("list") /\ Uses("history")
    /\ LET i == SelectedItem(m)
           m1 == clearListDeleteConfirm(ListPre("enter"))
           snap == snapshot(m1)
           m2 == [m1 EXCEPT !.history = recordHistory(i.ID, i.host.Alias, m1.history)]
       IN /\ i.kind = "host"
          /\ Len(m2.history) <= HistoryBound
          /\ \E fail \in FailChoices, storeOK \in StoreChoices(m2.rawHosts) :
                LET r == save(m2, storeOK, fail)
                IN /\ m' = IF r.err
                           THEN [restoreSnapshot(m2, snap) EXCEPT
                                   !.statusMessage = "Failed to save history",
                                   !.statusIsError = TRUE]
                           ELSE [m2 EXCEPT !.sshToRun = i]
                   /\ Saved(r, "connect")
    /\ UNCHANGED scans

\* deleteGroupByID as it would be if it left the members' group reference.
deleteGroupKeepsRefs(mm, groupID) ==
    LET idx == findGroupIndexByID(mm.rawGroups, groupID)
        gs == IF idx = 0 THEN mm.rawGroups ELSE RemoveAt(mm.rawGroups, idx)
    IN SetItems([mm EXCEPT !.rawGroups = gs])

\* deleteGroupByID as it would be if it removed the members with the group.
deleteGroupWithMembers(mm, groupID) ==
    LET idx == findGroupIndexByID(mm.rawGroups, groupID)
        gs == IF idx = 0 THEN mm.rawGroups ELSE RemoveAt(mm.rawGroups, idx)
        hs == SelectSeq(mm.rawHosts, LAMBDA h : h.GroupID # groupID)
    IN SetItems([mm EXCEPT !.rawGroups = gs, !.rawHosts = hs])

\* deleteGroupByID before its save.
deleteGroupMutation(mm, groupID) ==
    LET idx == findGroupIndexByID(mm.rawGroups, groupID)
        gs == IF idx = 0 THEN mm.rawGroups ELSE RemoveAt(mm.rawGroups, idx)
        hs == [i \in 1..Len(mm.rawHosts) |->
                 IF mm.rawHosts[i].GroupID = groupID
                 THEN [mm.rawHosts[i] EXCEPT !.GroupID = ""]
                 ELSE mm.rawHosts[i]]
    IN SetItems([mm EXCEPT !.rawGroups = gs, !.rawHosts = hs])

\* The host removal of the list view and of the form, before its save.
deleteHostMutation(mm, hostID) ==
    LET idx == findHostIndexByID(mm.rawHosts, hostID)
    IN SetItems([mm EXCEPT !.rawHosts =
                    IF idx = 0 THEN mm.rawHosts ELSE RemoveAt(mm.rawHosts, idx)])

\* d on a row, x on a group row: the first press arms the confirmation
ListDeleteArm ==
    /\ InState("list") /\ Uses("delete")
    /\ \E key \in {"d", "x"} :
          LET i == SelectedItem(m)
              m1 == ListPre(key)
              type == IF i.kind = "group" THEN "group" ELSE "host"
          IN /\ i.kind \in {"group", "host"}
             /\ key = "x" => i.kind = "group"
             /\ ~m1.listDeleteArmed \/ m1.listDeleteID # i.ID
                \/ m1.listDeleteType # type
             /\ m' = [m1 EXCEPT !.listDeleteArmed = TRUE, !.listDeleteID = i.ID,
                                !.listDeleteType = type]
             /\ ev' = Event(IF m1.listDeleteArmed THEN "rearm" ELSE "arm", "none")
    /\ NoFileChange /\ UNCHANGED scans

\* d or x on the group row the confirmation is armed for
ListDeleteGroup ==
    /\ InState("list") /\ Uses("groups")
    /\ LET i == SelectedItem(m)
           m1 == ListPre("d")
           snap == snapshot(m1)
           m2 == deleteGroupMutation(m1, i.ID)
       IN /\ i.kind = "group"
          /\ m1.listDeleteArmed /\ m1.listDeleteID = i.ID
          /\ m1.listDeleteType = "group"
          /\ \E fail \in FailChoices, storeOK \in StoreChoices(m2.rawHosts) :
                LET r == save(m2, storeOK, fail)
                IN /\ m' = IF r.err
                           THEN [restoreSnapshot(m2, snap) EXCEPT
                                   !.statusMessage = "Failed to save group deletion",
                                   !.statusIsError = TRUE]
                           ELSE clearListDeleteConfirm(m2)
                   /\ Saved(r, "deleteGroup")
    /\ UNCHANGED scans

\* d on a host row as it would be if the confirmation were armed for any
\* row.
ListDeleteHostAnyArmed ==
    /\ InState("list") /\ Uses("delete")
    /\ LET i == SelectedItem(m)
           m1 == ListPre("d")
           snap == snapshot(m1)
           m2 == deleteHostMutation(m1, i.ID)
       IN /\ i.kind = "host"
          /\ m1.listDeleteArmed
          /\ \E fail \in FailChoices, storeOK \in StoreChoices(m2.rawHosts) :
                LET r == save(m2, storeOK, fail)
                IN /\ m' = IF r.err
                           THEN [restoreSnapshot(m2, snap) EXCEPT
                                   !.statusMessage = "Failed to save host deletion",
                                   !.statusIsError = TRUE]
                           ELSE clearListDeleteConfirm(m2)
                   /\ Saved(r, "deleteHost")
    /\ UNCHANGED scans

\* d on the host or container row the confirmation is armed for
ListDeleteHost ==
    /\ InState("list") /\ Uses("delete")
    /\ LET i == SelectedItem(m)
           m1 == ListPre("d")
           snap == snapshot(m1)
           m2 == deleteHostMutation(m1, i.ID)
       IN /\ i.kind = "host"
          /\ m1.listDeleteArmed /\ m1.listDeleteID = i.ID
          /\ m1.listDeleteType = "host"
          /\ \E fail \in FailChoices, storeOK \in StoreChoices(m2.rawHosts) :
                LET r == save(m2, storeOK, fail)
                IN /\ m' = IF r.err
                           THEN [restoreSnapshot(m2, snap) EXCEPT
                                   !.statusMessage = "Failed to save host deletion",
                                   !.statusIsError = TRUE]
                           ELSE clearListDeleteConfirm(m2)
                   /\ Saved(r, "deleteHost")
    /\ UNCHANGED scans

\* importSSHConfig on the aliases parsed from the external file:
\* [imported, skipped], imported being the aliases kept, in order.
RECURSIVE importFrom(_, _, _, _, _)
importFrom(parsed, i, existingAliases, imported, skipped) ==
    IF i > Len(parsed) THEN [imported |-> imported, skipped |-> skipped]
    ELSE LET key == ToLower(TrimSpace(parsed[i]))
         IN IF key \in existingAliases
            THEN importFrom(parsed, i + 1, existingAliases, imported, skipped + 1)
            ELSE importFrom(parsed, i + 1, existingAliases \cup {key},
                            Append(imported, parsed[i]), skipped)

\* importSSHConfig as it would be if the aliases kept were not added to the
\* lookup set.
importSSHConfigKeepsBatchDupes(existing, parsed) ==
    LET existingAliases ==
            {ToLower(TrimSpace(existing[i].Alias)) : i \in 1..Len(existing)}
        kept == SelectSeq(parsed,
                    LAMBDA a : ToLower(TrimSpace(a)) \notin existingAliases)
    IN [imported |-> kept, skipped |-> Len(parsed) - Len(kept)]

\* importSSHConfig as it would be if the aliases of the existing hosts were
\* put into the lookup set without strings.ToLower.
importSSHConfigRawExisting(existing, parsed) ==
    importFrom(parsed, 1,
               {TrimSpace(existing[i].Alias) : i \in 1..Len(existing)},
               <<>>, 0)

importSSHConfig(existing, parsed) ==
    importFrom(parsed, 1,
               {ToLower(TrimSpace(existing[i].Alias)) : i \in 1..Len(existing)},
               <<>>, 0)

\* The k-th fresh identifier.
RECURSIVE NthID(_, _)
NthID(used, k) ==
    IF k = 1 THEN newHostID(used) ELSE NthID(used \cup {newHostID(used)}, k - 1)

\* Hosts of parseSSHConfig for the aliases kept: the hostname defaults to
\* the alias.
ParsedHosts(aliases, used) ==
    [k \in 1..Len(aliases) |->
        [NewHost(NthID(used, k), aliases[k], aliases[k], "", "")
            EXCEPT !.Port = <<"2", "2">>]]

\* i, the external file cannot be opened or read
ListImportFails ==
    /\ InState("list") /\ Uses("import")
    /\ m' = [ListPre("i") EXCEPT !.statusMessage = "cannot open ssh config",
                                 !.statusIsError = TRUE]
    /\ ev' = Event("import", "none")
    /\ NoFileChange
    /\ UNCHANGED scans

\* fmt.Sprintf("Imported %d hosts (%d skipped)", len(imported), skipped)
ImportedMessage(imported, skipped) ==
    "Imported " \o ToString(imported) \o " hosts (" \o ToString(skipped)
        \o " skipped)"

\* i, parseSSHConfig giving these aliases
ListImportOf(parsed) ==
    /\ InState("list") /\ Uses("import")
    /\ LET m1 == ListPre("i")
           res == importSSHConfig(m1.rawHosts, parsed)
           snap == snapshot(m1)
       IN /\ Len(m1.rawHosts) + Len(res.imported) <= HostBound
          /\ Cardinality(FreeIDs(UsedIDs)) >= Len(res.imported)
          /\ LET m2 == SetItems([m1 EXCEPT !.rawHosts =
                           m1.rawHosts \o ParsedHosts(res.imported, UsedIDs)])
             IN \E fail \in FailChoices, storeOK \in StoreChoices(m2.rawHosts) :
                   LET r == save(m2, storeOK, fail)
                   IN /\ m' = IF r.err
                              THEN [restoreSnapshot(m2, snap) EXCEPT
                                      !.statusMessage = "Imported hosts but failed to save",
                                      !.statusIsError = TRUE]
                              ELSE [m2 EXCEPT
                                      !.statusMessage =
                                          ImportedMessage(Len(res.imported), res.skipped),
                                      !.statusIsError = FALSE]
                      /\ Saved(r, "import")
    /\ UNCHANGED scans

\* i
ListImport == ListImportFails \/ \E parsed \in Batches : ListImportOf(parsed)

\* reselectItem: the index of the first row with this id and type.
reselectItem(mm, id, isGroup) ==
    LET idx == FirstIndex(mm.items,
                   LAMBDA it : it.kind = (IF isGroup THEN "group" ELSE "host")
                               /\ it.ID = id)
    IN IF idx = 0 THEN mm ELSE [mm EXCEPT !.cursor = idx]

\* moveItem as it would be if a host were swapped with the host next to it in
\* the host list, whatever its group.
moveTargetAdjacent(mm, direction) ==
    LET sel == SelectedItem(mm)
    IN CASE sel.kind = "group" ->
              LET idx == findGroupIndexByID(mm.rawGroups, sel.ID)
                  newIdx == idx + direction
              IN IF idx = 0 \/ newIdx < 1 \/ newIdx > Len(mm.rawGroups)
                 THEN 0 ELSE newIdx
         [] sel.kind = "host" ->
              LET idx == findHostIndexByID(mm.rawHosts, sel.ID)
                  newIdx == idx + direction
              IN IF sel.host.IsContainer \/ idx = 0 \/ newIdx < 1
                    \/ newIdx > Len(mm.rawHosts)
                 THEN 0 ELSE newIdx
         [] OTHER -> 0

\* moveItem as it would be if a group at an end of the group list went round
\* to the other end.
moveTargetWrap(mm, direction) ==
    LET sel == SelectedItem(mm)
    IN CASE sel.kind = "group" ->
              LET idx == findGroupIndexByID(mm.rawGroups, sel.ID)
                  newIdx == idx + direction
              IN IF idx = 0 \/ Len(mm.rawGroups) < 2 THEN 0
                 ELSE IF newIdx < 1 THEN Len(mm.rawGroups)
                 ELSE IF newIdx > Len(mm.rawGroups) THEN 1
                 ELSE newIdx
         [] sel.kind = "host" ->
              LET idx == findHostIndexByID(mm.rawHosts, sel.ID)
                  same == {i \in 1..Len(mm.rawHosts) :
                              /\ idx # 0
                              /\ mm.rawHosts[i].GroupID = mm.rawHosts[idx].GroupID
                              /\ IF direction < 0 THEN i < idx ELSE i > idx}
              IN IF sel.host.IsContainer \/ idx = 0 \/ same = {} THEN 0
                 ELSE IF direction < 0
                      THEN CHOOSE i \in same : \A j \in same : j <= i
                      ELSE Min(same)
         [] OTHER -> 0

\* moveItem: the index the selected row is swapped with, 0 when it stays.
moveTarget(mm, direction) ==
    LET sel == SelectedItem(mm)
    IN CASE sel.kind = "group" ->
              LET idx == findGroupIndexByID(mm.rawGroups, sel.ID)
                  newIdx == idx + direction
              IN IF idx = 0 \/ newIdx < 1 \/ newIdx > Len(mm.rawGroups)
                 THEN 0 ELSE newIdx
         [] sel.kind = "host" ->
              LET idx == findHostIndexByID(mm.rawHosts, sel.ID)
                  same == {i \in 1..Len(mm.rawHosts) :
                              /\ idx # 0
                              /\ mm.rawHosts[i].GroupID = mm.rawHosts[idx].GroupID
                              /\ IF direction < 0 THEN i < idx ELSE i > idx}
              IN IF sel.host.IsContainer \/ idx = 0 \/ same = {} THEN 0
                 ELSE IF direction < 0
                      THEN CHOOSE i \in same : \A j \in same : j <= i
                      ELSE Min(same)
         [] OTHER -> 0

\* moveItem before its save.
moveMutation(mm, direction) ==
    LET sel == SelectedItem(mm)
        t == moveTarget(mm, direction)
    IN IF sel.kind = "group"
       THEN SetItems([mm EXCEPT !.rawGroups =
               Swap(mm.rawGroups, findGroupIndexByID(mm.rawGroups, sel.ID), t)])
       ELSE SetItems([mm EXCEPT !.rawHosts =
               Swap(mm.rawHosts, findHostIndexByID(mm.rawHosts, sel.ID), t)])

\* shift+up calls moveItem(-1), shift+down moveItem(+1)
MoveOp(direction) == IF direction < 0 THEN "moveUp" ELSE "moveDown"

\* shift+up, shift+down
ListMove ==
    /\ InState("list") /\ Uses("move")
    /\ \E direction \in {-1, 1} :
          LET m1 == ListPre("shift")
              sel == SelectedItem(m1)
          IN IF moveTarget(m1, direction) = 0
             THEN /\ m' = m1
                  /\ ev' = Event(MoveOp(direction), "none")
                  /\ NoFileChange
             ELSE LET snap == snapshot(m1)
                      m2 == moveMutation(m1, direction)
                  IN \E fail \in FailChoices, storeOK \in StoreChoices(m2.rawHosts) :
                        LET r == save(m2, storeOK, fail)
                        IN /\ m' = IF r.err
                                   THEN [restoreSnapshot(m2, snap) EXCEPT
                                           !.statusMessage = "Failed to reorder",
                                           !.statusIsError = TRUE]
                                   ELSE reselectItem(m2, sel.ID, sel.kind = "group")
                           /\ Saved(r, MoveOp(direction))
    /\ UNCHANGED scans

\* ------------------------------------------------------------- the form
\* What the user has entered when Enter is pressed on the last field:
\* alias, hostname and password inputs, and the group selector (an option of
\* buildGroupOptions, or free text when groupCustom is set).
groupOptions(mm) ==
    {"(none)", "+ New group..."}
    \cup {mm.rawGroups[i].Name : i \in 1..Len(mm.rawGroups)}

FormInputs(mm) ==
    {[alias |-> a, hostname |-> hn, password |-> pw, groupCustom |-> gc, group |-> g,
      port |-> pt] :
        a \in Aliases, hn \in HostnameInputs, pw \in Passwords,
        gc \in BOOLEAN, g \in GroupNames \cup groupOptions(mm), pt \in Ports}

\* The validation of saveFromForm as it would be without the check of the
\* alias for emptiness.
formValidateAllowsEmpty(mm, inp) ==
    LET alias == TrimSpace(inp.alias)
    IN IF \E i \in 1..Len(mm.rawHosts) :
                  /\ EqualFold(TrimSpace(mm.rawHosts[i].Alias), alias)
                  /\ (mm.selectedHost.kind = "nil"
                      \/ mm.rawHosts[i].ID # mm.selectedHost.ID)
            THEN "alias already exists"
       ELSE IF ~inp.groupCustom /\ inp.group = "+ New group..."
            THEN "new group selected but name not provided"
       ELSE ""

\* The validation of saveFromForm as it would be with == in place of
\* strings.EqualFold.
formValidateExact(mm, inp) ==
    LET alias == TrimSpace(inp.alias)
    IN IF alias = "" THEN "alias is required"
       ELSE IF \E i \in 1..Len(mm.rawHosts) :
                  /\ TrimSpace(mm.rawHosts[i].Alias) = alias
                  /\ (mm.selectedHost.kind = "nil"
                      \/ mm.rawHosts[i].ID # mm.selectedHost.ID)
            THEN "alias already exists"
       ELSE IF ~inp.groupCustom /\ inp.group = "+ New group..."
            THEN "new group selected but name not provided"
       ELSE ""

\* The error saveFromForm returns before it changes anything, "" when none.
formValidate(mm, inp) ==
    LET alias == TrimSpace(inp.alias)
    IN IF alias = "" THEN "alias is required"
       ELSE IF \E i \in 1..Len(mm.rawHosts) :
                  /\ EqualFold(TrimSpace(mm.rawHosts[i].Alias), alias)
                  /\ (mm.selectedHost.kind = "nil"
                      \/ mm.rawHosts[i].ID # mm.selectedHost.ID)
            THEN "alias already exists"
       ELSE IF ~inp.groupCustom /\ inp.group = "+ New group..."
            THEN "new group selected but name not provided"
       ELSE ""

\* The group name saveFromForm resolves.
formGroupName(inp) ==
    IF inp.groupCustom THEN TrimSpace(inp.group)
    ELSE IF inp.group = "(none)" THEN "" ELSE inp.group

\* saveFromForm as it would be if an edit did not take over the containers
\* and the expansion of the host.
formMutationDropsContainers(mm, inp, used) ==
    LET groupName == formGroupName(inp)
        found == findGroupByName(mm.rawGroups, groupName)
        gid == newHostID(used)
        groups == IF groupName # "" /\ found = 0
                  THEN Append(mm.rawGroups, NewGroup(gid, groupName, TRUE))
                  ELSE mm.rawGroups
        groupID == IF groupName = "" THEN ""
                   ELSE groups[IF found = 0 THEN Len(groups) ELSE found].ID
        newHost == [NewHost("", TrimSpace(inp.alias), inp.hostname, inp.password,
                            groupID) EXCEPT !.Port = inp.port]
        idx == IF mm.selectedHost.kind = "nil" THEN 0
               ELSE findHostIndexByID(mm.rawHosts, mm.selectedHost.ID)
        hosts == IF mm.selectedHost.kind # "nil"
                 THEN IF idx = 0 THEN mm.rawHosts
                      ELSE [mm.rawHosts EXCEPT ![idx] =
                              [newHost EXCEPT !.ID = mm.rawHosts[idx].ID]]
                 ELSE Append(mm.rawHosts,
                         [newHost EXCEPT !.ID = newHostID(used \cup {groups[i].ID : i \in 1..Len(groups)})])
    IN SetItems([mm EXCEPT !.rawGroups = groups, !.rawHosts = hosts])

\* saveFromForm after validation and before its save.
formMutation(mm, inp, used) ==
    LET groupName == formGroupName(inp)
        found == findGroupByName(mm.rawGroups, groupName)
        gid == newHostID(used)
        groups == IF groupName # "" /\ found = 0
                  THEN Append(mm.rawGroups, NewGroup(gid, groupName, TRUE))
                  ELSE mm.rawGroups
        groupID == IF groupName = "" THEN ""
                   ELSE groups[IF found = 0 THEN Len(groups) ELSE found].ID
        newHost == [NewHost("", TrimSpace(inp.alias), inp.hostname, inp.password,
                            groupID) EXCEPT !.Port = inp.port]
        idx == IF mm.selectedHost.kind = "nil" THEN 0
               ELSE findHostIndexByID(mm.rawHosts, mm.selectedHost.ID)
        hosts == IF mm.selectedHost.kind # "nil"
                 THEN IF idx = 0 THEN mm.rawHosts
                      ELSE [mm.rawHosts EXCEPT ![idx] =
                              [newHost EXCEPT !.ID = mm.rawHosts[idx].ID,
                                  !.Containers = mm.rawHosts[idx].Containers,
                                  !.Expanded = mm.rawHosts[idx].Expanded]]
                 ELSE Append(mm.rawHosts,
                         [newHost EXCEPT !.ID = newHostID(used \cup {groups[i].ID : i \in 1..Len(groups)})])
    IN SetItems([mm EXCEPT !.rawGroups = groups, !.rawHosts = hosts])

\* enter on the last field with these inputs: saveFromForm
FormSaveWith(inp) ==
    /\ InState("form") /\ Uses("form")
    /\ ~m.deleteFocus
    /\    /\ inp.groupCustom => inp.group \in GroupNames
          /\ ~inp.groupCustom => inp.group \in groupOptions(m)
          /\ IF formValidate(m, inp) # ""
             THEN /\ m' = m
                  /\ ev' = Rejected("form", formValidate(m, inp))
                  /\ NoFileChange
             ELSE LET snap == snapshot(m)
                      m2 == formMutation(m, inp, UsedIDs)
                      needed == (IF formGroupName(inp) # ""
                                    /\ findGroupByName(m.rawGroups, formGroupName(inp)) = 0
                                 THEN 1 ELSE 0)
                                + (IF m.selectedHost.kind = "nil" THEN 1 ELSE 0)
                  IN /\ Cardinality(FreeIDs(UsedIDs)) >= needed
                     /\ Len(m2.rawHosts) <= HostBound
                     /\ Len(m2.rawGroups) <= GroupBound
                     /\ \E fail \in FailChoices, storeOK \in StoreChoices(m2.rawHosts) :
                           LET r == save(m2, storeOK, fail)
                           IN /\ m' = IF r.err
                                      THEN restoreSnapshot(m2, snap)
                                      ELSE [m2 EXCEPT !.deleteFocus = FALSE,
                                              !.deleteArmed = FALSE,
                                              !.state = "list"]
                              /\ Saved(r, "form")
    /\ UNCHANGED scans

FormSave == \E inp \in FormInputs(m) : FormSaveWith(inp)

\* enter on the Delete Host button of the edit form
FormDelete ==
    /\ InState("form") /\ Uses("form")
    /\ m.deleteFocus /\ m.selectedHost.kind # "nil"
    /\ IF ~m.deleteArmed
       THEN /\ m' = [m EXCEPT !.deleteArmed = TRUE]
            /\ ev' = Event("key", "none")
            /\ NoFileChange
       ELSE LET snap == snapshot(m)
                m2 == deleteHostMutation(m, m.selectedHost.ID)
            IN \E fail \in FailChoices, storeOK \in StoreChoices(m2.rawHosts) :
                  LET r == save(m2, storeOK, fail)
                      m3 == IF r.err
                            THEN [restoreSnapshot(m2, snap) EXCEPT
                                    !.statusMessage = "Failed to save host deletion",
                                    !.statusIsError = TRUE]
                            ELSE m2
                  IN /\ m' = [m3 EXCEPT !.state = "list", !.deleteFocus = FALSE,
                                        !.deleteArmed = FALSE]
                     /\ Saved(r, "formDelete")
    /\ UNCHANGED scans

\* tab, shift+tab, enter on another field, typing: the focus moves between
\* the inputs and the Delete Host button (the inputs themselves are drawn
\* when the form is saved).
FormKey ==
    /\ InState("form") /\ Uses("form")
    /\ \E key \in {"tab", "shift+tab", "enter", "type"} :
          m' = CASE key = "tab" ->
                      IF m.deleteFocus THEN [m EXCEPT !.deleteArmed = FALSE]
                      ELSE [m EXCEPT !.deleteFocus = (m.selectedHost.kind # "nil"),
                                     !.deleteArmed = FALSE]
                 [] key = "shift+tab" ->
                      [m EXCEPT !.deleteFocus = FALSE, !.deleteArmed = FALSE]
                 [] key = "enter" ->
                      IF m.deleteFocus THEN m
                      ELSE [m EXCEPT !.deleteFocus = FALSE,
                                     !.deleteArmed = FALSE]
                 [] OTHER ->
                      IF m.deleteFocus THEN [m EXCEPT !.deleteArmed = FALSE] ELSE m
    /\ ev' = Event("key", "none")
    /\ NoFileChange /\ UNCHANGED scans

\* esc, ctrl+c
FormLeave ==
    /\ InState("form")
    /\ \/ m' = IF m.deleteFocus /\ m.deleteArmed
               THEN [m EXCEPT !.deleteArmed = FALSE]
               ELSE [m EXCEPT !.state = "list",
                              !.deleteFocus = FALSE, !.deleteArmed = FALSE]
       \/ m' = [m EXCEPT !.quitting = TRUE]
    /\ ev' = Event("key", "none")
    /\ NoFileChange /\ UNCHANGED scans

\* ------------------------------------------------------- the group prompt
\* esc
GroupPromptEsc ==
    /\ InState("groupPrompt")
    /\ m' = [m EXCEPT !.state = "list", !.groupAction = "", !.groupTarget = ""]
    /\ ev' = Event("key", "none")
    /\ NoFileChange /\ UNCHANGED scans

\* The validation of the prompt as it would be if a rename never excluded the
\* group being renamed.
groupPromptValidateNoSelf(mm, input) ==
    LET name == TrimSpace(input)
        idx == findGroupByName(mm.rawGroups, name)
    IN IF name = "" THEN "group name is required"
       ELSE IF idx # 0 THEN "group name already exists"
       ELSE ""

\* The error of the prompt's validation, "" when the name is accepted.
groupPromptValidate(mm, input) ==
    LET name == TrimSpace(input)
        idx == findGroupByName(mm.rawGroups, name)
    IN IF name = "" THEN "group name is required"
       ELSE IF idx # 0 /\ ~(mm.groupAction = "rename"
                            /\ mm.rawGroups[idx].ID = mm.groupTarget)
            THEN "group name already exists"
       ELSE ""

\* The create or rename of the prompt before its save.
groupPromptMutation(mm, input, used) ==
    LET name == TrimSpace(input)
        idx == findGroupIndexByID(mm.rawGroups, mm.groupTarget)
    IN CASE mm.groupAction = "create" ->
              SetItems([mm EXCEPT !.rawGroups =
                  Append(mm.rawGroups, NewGroup(newHostID(used), name, TRUE))])
         [] mm.groupAction = "rename" ->
              SetItems(IF idx = 0 THEN mm
                       ELSE [mm EXCEPT !.rawGroups[idx].Name = name])
         [] OTHER -> mm

\* what enter in the prompt does: a create or a rename
GroupOp(mm) == IF mm.groupAction = "rename" THEN "groupRename" ELSE "groupCreate"

\* enter, with the text the prompt holds (the name of the group at first,
\* then whatever the user has typed)
GroupPromptEnterWith(input) ==
    /\ InState("groupPrompt") /\ Uses("groups")
    /\ IF groupPromptValidate(m, input) # ""
       THEN /\ m' = m
            /\ ev' = Rejected(GroupOp(m), groupPromptValidate(m, input))
            /\ NoFileChange
       ELSE LET snap == snapshot(m)
                m2 == groupPromptMutation(m, input, UsedIDs)
            IN /\ m.groupAction = "create" => FreeIDs(UsedIDs) # {}
               /\ Len(m2.rawGroups) <= GroupBound
               /\ \E fail \in FailChoices, storeOK \in StoreChoices(m2.rawHosts) :
                     LET r == save(m2, storeOK, fail)
                     IN /\ m' = IF r.err
                                THEN restoreSnapshot(m2, snap)
                                ELSE [m2 EXCEPT !.state = "list", !.groupAction = "",
                                        !.groupTarget = ""]
                        /\ Saved(r, GroupOp(m))
    /\ UNCHANGED scans

GroupPromptEnter == \E input \in GroupNames : GroupPromptEnterWith(input)

\* ------------------------------------------------------ the history view
\* h, esc, q leave the view; ctrl+c quits
HistoryLeave ==
    /\ InState("history")
    /\ \/ m' = [m EXCEPT !.state = "list"]
       \/ m' = [m EXCEPT !.quitting = TRUE]
    /\ ev' = Event("key", "none")
    /\ NoFileChange /\ UNCHANGED scans

\* enter on the selected row (the row the user has moved the cursor of the
\* history list to)
HistoryConnectOn(i) ==
    /\ InState("history") /\ Uses("history")
    /\ i.kind = "host"
    /\ IF i.host.Hostname = ""
       THEN /\ m' = m
            /\ ev' = Event("connect", "none")
            /\ NoFileChange
       ELSE LET snap == snapshot(m)
                m2 == [m EXCEPT !.history =
                          recordHistory(i.ID, i.host.Alias, m.history)]
            IN /\ Len(m2.history) <= HistoryBound
               /\ \E fail \in FailChoices, storeOK \in StoreChoices(m2.rawHosts) :
                  LET r == save(m2, storeOK, fail)
                  IN /\ m' = IF r.err
                             THEN [restoreSnapshot(m2, snap) EXCEPT
                                     !.state = "list",
                                     !.statusMessage = "Failed to save history",
                                     !.statusIsError = TRUE]
                             ELSE [m2 EXCEPT !.sshToRun = i]
                     /\ Saved(r, "connect")
    /\ UNCHANGED scans

HistoryConnect == \E i \in Range(m.historyItems) : HistoryConnectOn(i)

\* e on a row whose host is in the host list
HistoryEdit ==
    /\ InState("history") /\ Uses("history")
    /\ \E i \in Range(m.historyItems) :
       LET idx == findHostIndexByID(m.rawHosts, i.ID)
       IN /\ i.kind = "host" /\ idx # 0
          /\ m' = [m EXCEPT !.state = "form",
                      !.selectedHost = [kind |-> "host", ID |-> m.rawHosts[idx].ID],
                      !.deleteFocus = FALSE, !.deleteArmed = FALSE]
    /\ ev' = Event("key", "none")
    /\ NoFileChange /\ UNCHANGED scans

\* ------------------------------------------------------- container scans
\* The containers a finished scan reports for the host it was started for.
ScannedContainers(names, hostID, used) ==
    [k \in 1..Len(names) |->
        [NewHost(NthID(used, k), names[k], "c0ffee", "", "") EXCEPT
            !.IsContainer = TRUE, !.ParentID = hostID]]

ScanReports ==
    UNION {[1..n -> ContainerNames] : n \in 0..MaxContainers}

\* Update, case scanDockerMsg
ScanResult ==
    /\ ~m.quitting /\ m.sshToRun.kind = "nil" /\ Idle
    /\ \E s \in scans :
          /\ scans' = scans \ {s}
          /\ \/ m' = [m EXCEPT !.statusMessage = "Scan failed",
                               !.statusIsError = TRUE]
             \/ \E names \in ScanReports :
                   /\ Cardinality(FreeIDs(UsedIDs)) >= Len(names)
                   /\ m' = IF s.hostIndex >= 1 /\ s.hostIndex <= Len(m.rawHosts)
                           THEN SetItems([m EXCEPT
                                   !.rawHosts[s.hostIndex].Containers =
                                       ScannedContainers(names, s.hostID, UsedIDs),
                                   !.rawHosts[s.hostIndex].Expanded = TRUE])
                           ELSE m
    /\ ev' = Event("scanResult", "none")
    /\ NoFileChange

\* ------------------------------------------------------------- start-up
\* References lookupPasswordSecret may be asked for while loading this file.
RECURSIVE LookupRefsOf(_)
LookupRefsOf(hosts) ==
    IF hosts = <<>> THEN {}
    ELSE (IF Head(hosts).Password = "" /\ Head(hosts).PasswordRef # ""
          THEN {Head(hosts).PasswordRef} ELSE {})
         \cup LookupRefsOf(Head(hosts).Containers)
         \cup LookupRefsOf(Tail(hosts))

LookupRefs(file) ==
    IF file.kind = "full" THEN LookupRefsOf(DecodeHosts(file.doc.Hosts)) ELSE {}

FileIDs(f) ==
    IF f.kind \in {"full", "partial"}
    THEN HostIDsOf(f.doc.Hosts)
         \cup {f.doc.Groups[i].ID : i \in 1..Len(f.doc.Groups)}
         \cup {f.doc.History[i].HostID : i \in 1..Len(f.doc.History)}
    ELSE {}

\* The program is started again after it has ended: main() runs initialModel().
Start ==
    /\ m.quitting \/ m.sshToRun.kind # "nil"
    /\ Idle
    /\ \E persist \in PersistChoices, lookupOK \in SUBSET LookupRefs(disk) :
          LET m0 == initialModel(disk, lookupOK, FileIDs(disk) \cup FileIDs(tmp))
              changed == m0.rawHosts # loadConfig(disk, lookupOK, FileIDs(disk) \cup FileIDs(tmp)).hosts
                         \/ m0.rawGroups # loadConfig(disk, lookupOK, FileIDs(disk) \cup FileIDs(tmp)).groups
          IN /\ storePassword' = persist
             /\ IF changed
                THEN \E fail \in FailChoices, storeOK \in SUBSET StoreRefs(m0.rawHosts) :
                        LET r == saveConfig(m0.rawGroups, m0.rawHosts, m0.history,
                                            persist, IF persist THEN storeOK ELSE {},
                                            fail, [disk |-> disk, tmp |-> tmp])
                        IN /\ m' = [m0 EXCEPT !.err = m0.err \/ r.err]
                           /\ disk' = r.disk
                           /\ tmp' = r.tmp
                           /\ ev' = Event("start", IF r.err THEN "fail" ELSE "ok")
                ELSE /\ m' = m0
                     /\ UNCHANGED <<disk, tmp>>
                     /\ ev' = Event("start", "none")
    /\ scans' = {}
    /\ UNCHANGED profile

\* ------------------------------------------------------- specification
\* The configuration file the program finds when it is first started: none,
\* or one an earlier run has written (a host in a group, a host in none).
GroupedFile ==
    FullFile(configFile(configVersion,
        <<NewGroup(IDName(3), "prod", TRUE)>>,
        <<NewHost(IDName(1), "web", "10.0.0.1", "", IDName(3)),
          NewHost(IDName(2), "db", "10.0.0.1", "", "")>>,
        <<>>))

InitFiles == IF profile = "groups" THEN {Absent, GroupedFile} ELSE {Absent}

Init ==
    /\ profile \in Profiles
    /\ storePassword \in PersistChoices
    /\ disk \in InitFiles
    /\ tmp = Absent
    /\ m = initialModel(disk, {}, FileIDs(disk))
    /\ scans = {}
    /\ ev = Event("start", "none")
    /\ savePc = "idle"
    /\ saveIn = <<>>
    /\ fnIn = <<>>
    /\ fnOut = <<>>

Next ==
    \/ ListQuit \/ ListOtherKey \/ ListNavigate \/ ListNew \/ ListEdit
    \/ ListDuplicate \/ ListToggleGroup \/ ListToggleHost \/ ListScan
    \/ ListHistory \/ ListGroupPrompt \/ ListExport \/ ListConnect
    \/ ListDeleteArm \/ ListDeleteGroup \/ ListDeleteHost \/ ListImport
    \/ ListMove
    \/ FormSave \/ FormDelete \/ FormKey \/ FormLeave
    \/ GroupPromptEsc \/ GroupPromptEnter
    \/ HistoryLeave \/ HistoryConnect \/ HistoryEdit
    \/ ScanResult \/ Start

Spec == Init /\ [][Next]_vars

\* ------------------------------------------- saveConfig, step by step
\* saveConfig (part_000:705-734) one system call at a time, with the process
\* dying between any two of them.  saveIn holds the document being saved,
\* the canonical file as it was when the call began, and how the call ended.
StepDocs ==
    {SaveDoc(<<>>, hosts, <<>>, persist, storeOK) :
        hosts \in {<<>>, <<NewHost(IDName(1), "web", "10.0.0.1", Secret, "")>>},
        persist \in BOOLEAN, storeOK \in {{}, {IDName(1)}}}

Parked ==
    /\ profile = "secrets"
    /\ storePassword = TRUE
    /\ m = initialModel(Absent, {}, {})
    /\ scans = {}
    /\ ev = Event("start", "none")

SaveInit ==
    /\ Parked
    /\ disk = Absent
    /\ tmp = Absent
    /\ savePc = "idle"
    /\ saveIn = [doc |-> CHOOSE d \in StepDocs : TRUE, before |-> Absent,
                 result |-> "none"]
    /\ fnIn = <<>>
    /\ fnOut = <<>>

SaveFrame == UNCHANGED <<m, storePassword, scans, ev, fnIn, fnOut, profile>>

SaveReturn(err) ==
    /\ savePc' = "idle"
    /\ saveIn' = [saveIn EXCEPT !.result = IF err THEN "error" ELSE "ok"]

\* a handler calls saveConfig
SaveCall ==
    /\ savePc = "idle"
    /\ \E d \in StepDocs :
          saveIn' = [doc |-> d, before |-> disk, result |-> "running"]
    /\ savePc' = "mkdir"
    /\ UNCHANGED <<disk, tmp>>
    /\ SaveFrame

\* os.MkdirAll
SaveMkdir ==
    /\ savePc = "mkdir"
    /\ \/ savePc' = "create" /\ UNCHANGED saveIn
       \/ SaveReturn(TRUE)
    /\ UNCHANGED <<disk, tmp>>
    /\ SaveFrame

\* os.Create(tmpPath)
SaveCreate ==
    /\ savePc = "create"
    /\ \/ /\ tmp' = StepCreate([disk |-> disk, tmp |-> tmp]).tmp
          /\ disk' = StepCreate([disk |-> disk, tmp |-> tmp]).disk
          /\ savePc' = "write" /\ UNCHANGED saveIn
       \/ SaveReturn(TRUE) /\ UNCHANGED <<disk, tmp>>
    /\ SaveFrame

\* f.Write(bytes): a part of the bytes has reached the file, all of them have,
\* or the call has failed after some of them
SaveWrite ==
    /\ savePc = "write"
    /\ \/ /\ tmp' = StepWrite([disk |-> disk, tmp |-> tmp], saveIn.doc, FALSE).tmp
          /\ disk' = StepWrite([disk |-> disk, tmp |-> tmp], saveIn.doc, FALSE).disk
          /\ \/ UNCHANGED <<savePc, saveIn>>
             \/ SaveReturn(TRUE)
       \/ /\ tmp' = StepWrite([disk |-> disk, tmp |-> tmp], saveIn.doc, TRUE).tmp
          /\ disk' = StepWrite([disk |-> disk, tmp |-> tmp], saveIn.doc, TRUE).disk
          /\ savePc' = "close" /\ UNCHANGED saveIn
    /\ SaveFrame

\* f.Close()
SaveClose ==
    /\ savePc = "close"
    /\ \/ savePc' = "rename" /\ UNCHANGED saveIn
       \/ SaveReturn(TRUE)
    /\ UNCHANGED <<disk, tmp>>
    /\ SaveFrame

\* os.Rename(tmpPath, path)
SaveRename ==
    /\ savePc = "rename"
    /\ \/ /\ disk' = StepRename([disk |-> disk, tmp |-> tmp]).disk
          /\ tmp' = StepRename([disk |-> disk, tmp |-> tmp]).tmp
          /\ SaveReturn(FALSE)
       \/ SaveReturn(TRUE) /\ UNCHANGED <<disk, tmp>>
    /\ SaveFrame

\* the process dies inside saveConfig
SaveCrash ==
    /\ savePc \in Range(SaveSteps)
    /\ savePc' = "crashed"
    /\ saveIn' = [saveIn EXCEPT !.result = "crashed"]
    /\ UNCHANGED <<disk, tmp>>
    /\ SaveFrame

\* the program is started again
SaveRestart ==
    /\ savePc = "crashed"
    /\ savePc' = "idle"
    /\ UNCHANGED <<disk, tmp, saveIn>>
    /\ SaveFrame

SaveNext ==
    \/ SaveCall \/ SaveMkdir \/ SaveCreate \/ SaveWrite \/ SaveClose
    \/ SaveRename \/ SaveCrash \/ SaveRestart

SpecSave == SaveInit /\ [][SaveNext]_vars

\* ------------------------------------------------ recordHistory alone
MaxConnects == 52
MaxRepeats == 1

HistID(n) == "h" \o ToString(n)

\* The entries h1 .. hn, oldest last.
HistList(n) == [i \in 1..n |-> NewEntry(HistID(i), "old")]

\* Input lists: without and with entries that share a host id.
HistLengths == {0, 1, 2, 3, maxHistoryEntries - 1, maxHistoryEntries,
                maxHistoryEntries + 1}

HistInputs ==
    {HistList(n) : n \in HistLengths}
    \cup {[HistList(n) EXCEPT ![n].HostID = HistID(1)] : n \in HistLengths \ {0, 1}}
    \cup {[HistList(n) EXCEPT ![2].HostID = HistID(n)] : n \in HistLengths \ {0, 1, 2}}

HistHosts(history) ==
    {HistID(1), HistID(2), HistID(Len(history)), "new"}

HistInit ==
    /\ Parked
    /\ disk = Absent /\ tmp = Absent
    /\ savePc = "idle" /\ saveIn = <<>>
    /\ \E history \in HistInputs :
         \E h \in HistHosts(history) :
            fnIn = [op |-> "input", history |-> history, hostID |-> h,
                    alias |-> "new", chain |-> history = <<>> /\ h = "new",
                    connects |-> 0, repeats |-> 0]
    /\ fnOut = <<>>

HistFrame ==
    UNCHANGED <<m, disk, tmp, storePassword, scans, ev, savePc, saveIn, profile>>

\* recordHistory applied to the drawn list and host
HistApply ==
    /\ fnIn.op = "input" /\ ~fnIn.chain
    /\ fnIn' = [fnIn EXCEPT !.op = "recordHistory"]
    /\ fnOut' = recordHistory(fnIn.hostID, fnIn.alias, fnIn.history)
    /\ HistFrame

\* one more connect of a run that began with an empty history: to a host not
\* connected to before, or again to one that is in the history
HistConnect ==
    /\ fnIn.chain
    /\ \E again \in BOOLEAN :
         \E h \in IF again
                  THEN {fnOut[i].HostID : i \in {1, (Len(fnOut) + 1) \div 2, Len(fnOut)}
                                               \cap 1..Len(fnOut)}
                  ELSE {HistID(fnIn.connects + 1)} :
            /\ again => fnIn.repeats < MaxRepeats
            /\ ~again => fnIn.connects < MaxConnects
            /\ fnIn' = [op |-> "recordHistory", history |-> fnOut, hostID |-> h,
                        alias |-> "new", chain |-> TRUE,
                        connects |-> fnIn.connects + (IF again THEN 0 ELSE 1),
                        repeats |-> fnIn.repeats + (IF again THEN 1 ELSE 0)]
            /\ fnOut' = recordHistory(h, "new", fnOut)
    /\ HistFrame

HistNext == HistApply \/ HistConnect

SpecHist == HistInit /\ [][HistNext]_vars

\* ------------------------------------------------- flattenHosts alone
MaxFlatHosts == 3
MaxFlatGroups == 2
MaxFlatContainers == 2
MaxRoundSaves == 2
MaxImportBlocks == 3
MaxExportHosts == 3
MaxExports == 2

FlatGroupIDs == {"g" \o ToString(n) : n \in 1..MaxFlatGroups}

\* Group lists: every order of every subset of the groups, expanded or not.
FlatGroups ==
    {gs \in UNION {[1..n -> [ID : FlatGroupIDs, Name : {"prod"}, Expanded : BOOLEAN]] :
                      n \in 0..MaxFlatGroups} :
        \A i, j \in 1..Len(gs) : i # j => gs[i].ID # gs[j].ID}

\* Host k: in no group, in one of the groups, or in a group that is not in
\* the list; the first host has containers and may be expanded.
FlatHost(k, groupID, expanded, nc) ==
    [NewHost("h" \o ToString(k), "a" \o ToString(k), "10.0.0.1", "", groupID) EXCEPT
        !.Expanded = expanded,
        !.Containers =
            IF k = 1
            THEN [c \in 1..nc |->
                    [NewHost("c" \o ToString(c), "app", "c0ffee", "", "")
                        EXCEPT !.IsContainer = TRUE]]
            ELSE <<>>]

FlatHosts ==
    UNION {{[k \in 1..n |-> FlatHost(k, gid[k], k = 1 /\ e, nc)] :
               gid \in [1..n -> {""} \cup FlatGroupIDs \cup {"gone"}], e \in BOOLEAN,
               nc \in 1..MaxFlatContainers} :
           n \in 0..MaxFlatHosts}

FlatInit ==
    /\ Parked
    /\ disk = Absent /\ tmp = Absent
    /\ savePc = "idle" /\ saveIn = <<>>
    /\ \E groups \in FlatGroups, hosts \in FlatHosts :
          fnIn = [op |-> "input", groups |-> groups, hosts |-> hosts]
    /\ fnOut = <<>>

\* flattenHosts applied to the drawn lists
FlatApply ==
    /\ fnIn.op = "input"
    /\ fnIn' = [fnIn EXCEPT !.op = "flattenHosts"]
    /\ fnOut' = flattenHosts(fnIn.groups, fnIn.hosts)
    /\ HistFrame

\* "/" in the list view: the list that shows flattenHosts of the lists is
\* given flattenAll of them
FlatApplyAll ==
    /\ fnIn.op = "flattenHosts"
    /\ fnIn' = [fnIn EXCEPT !.op = "flattenAll"]
    /\ fnOut' = [visible |-> fnOut, all |-> flattenAll(fnIn.groups, fnIn.hosts)]
    /\ HistFrame

FlatNext == FlatApply \/ FlatApplyAll

SpecFlatten == FlatInit /\ [][FlatNext]_vars

\* --------------------------------------------------- loadConfig alone
\* The hosts of the files to load.
LoadHosts == <<NewHost("h1", "web", "10.0.0.1", "", "g1")>>
LoadGroups == <<NewGroup("g1", "prod", TRUE)>>
LoadHistory == <<NewEntry("h1", "web")>>

\* What the canonical and the legacy path can hold.
LoadFiles ==
    {Absent, EmptyFile, NullFile, ScalarFile, DeniedFile,
     PartialFile(configFile(configVersion, LoadGroups, LoadHosts, LoadHistory)),
     FullFile(configFile(configVersion, LoadGroups, LoadHosts, LoadHistory)),
     FullFile(configFile(configVersion, <<>>, <<>>, <<>>)),
     FullFile(configFile(0, LoadGroups, LoadHosts, LoadHistory)),
     FullFile(configFile(0, <<>>, <<>>, LoadHistory)),
     FullFile(configFile(0, <<>>, <<>>, <<>>)),
     ListFile(LoadHosts), ListFile(<<>>)}

LoadInit ==
    /\ profile = "secrets"
    /\ storePassword = TRUE
    /\ m = initialModel(Absent, {}, {})
    /\ scans = {}
    /\ ev = Event("start", "none")
    /\ disk \in LoadFiles /\ tmp = Absent
    /\ savePc = "idle" /\ saveIn = <<>>
    /\ \E legacy \in LoadFiles, fail \in {"none", "write", "rename"} :
          fnIn = [op |-> "input", canonical |-> disk, legacy |-> legacy,
                  fail |-> fail, later |-> legacy]
    /\ fnOut = <<>>

\* loadConfig applied to the two files
LoadApply ==
    /\ fnIn.op = "input"
    /\ LET r == loadConfigPaths(fnIn.legacy, {}, {"h1"}, storePassword, TRUE,
                                fnIn.fail, [disk |-> disk, tmp |-> tmp])
       IN /\ fnOut' = [groups |-> r.groups, hosts |-> r.hosts,
                        history |-> r.history, error |-> r.error]
          /\ disk' = r.disk /\ tmp' = r.tmp
    /\ fnIn' = [fnIn EXCEPT !.op = "loadConfig"]
    /\ UNCHANGED <<m, storePassword, scans, ev, savePc, saveIn, profile>>

\* loadConfig called again, on the canonical file the first call has left
\* and a legacy file that is still there, removed or out of reach
LoadAgain ==
    /\ fnIn.op = "loadConfig"
    /\ \E later \in {fnIn.legacy, Absent, DeniedFile} :
          LET r == loadConfigPaths(later, {}, {"h1"}, storePassword, TRUE,
                                   "none", [disk |-> disk, tmp |-> tmp])
          IN /\ fnOut' = [first |-> fnOut,
                          second |-> [groups |-> r.groups, hosts |-> r.hosts,
                                      history |-> r.history, error |-> r.error]]
             /\ disk' = r.disk /\ tmp' = r.tmp
             /\ fnIn' = [fnIn EXCEPT !.op = "again", !.later = later]
    /\ UNCHANGED <<m, storePassword, scans, ev, savePc, saveIn, profile>>

LoadNext == LoadApply \/ LoadAgain

SpecLoad == LoadInit /\ [][LoadNext]_vars

\* ------------------------------------------------ importSSHConfig alone
\* Aliases of the Host blocks of the external file.
ImportAliases == {"existing-host", "new-host", "EXISTING-HOST", "web"}

\* What parseSSHConfig returns of the file, by alias, in the order of the
\* blocks.
ImportParsed ==
    UNION {[1..n -> ImportAliases] : n \in 0..MaxImportBlocks}

\* The hosts there are when the file is imported.
ImportExisting ==
    {<<>>,
     <<NewHost("h1", "Existing-Host", "old.example.com", "", "")>>,
     <<NewHost("h1", "Existing-Host", "old.example.com", "", ""),
       NewHost("h2", " web ", "10.0.0.1", "", "")>>}

ImportFnInit ==
    /\ profile = "secrets"
    /\ storePassword = TRUE
    /\ m = initialModel(Absent, {}, {})
    /\ scans = {}
    /\ ev = Event("start", "none")
    /\ disk = Absent /\ tmp = Absent
    /\ savePc = "idle" /\ saveIn = <<>>
    /\ \E existing \in ImportExisting, parsed \in ImportParsed :
          fnIn = [op |-> "input", existing |-> existing, parsed |-> parsed]
    /\ fnOut = <<>>

\* importSSHConfig applied to the drawn hosts and blocks
ImportApply ==
    /\ fnIn.op = "input"
    /\ fnIn' = [fnIn EXCEPT !.op = "importSSHConfig"]
    /\ fnOut' = importSSHConfig(fnIn.existing, fnIn.parsed)
    /\ UNCHANGED <<m, disk, tmp, storePassword, scans, ev, savePc, saveIn, profile>>

ImportFnNext == ImportApply

SpecImportFn == ImportFnInit /\ [][ImportFnNext]_vars

\* ------------------------------------------------------ exportSSHConfig
\* The external file is its lines, [kw, args], and whether its last line is
\* terminated.  kw is the text of the line up to its arguments, separator
\* included ("Host ", "host ", "Host=", "HostName ", "Port ", "" for a blank
\* line), args the blank-separated words after it.
ConfigLine(kw, args) == [kw |-> kw, args |-> args]
BlankLine == ConfigLine("", <<>>)
ExternalFile(lines, terminated) == [lines |-> lines, nl |-> terminated]
NoExternalFile == ExternalFile(<<>>, FALSE)

\* strings.ContainsAny(alias, "*?") on the words the model uses.
isWildcard(alias) == alias \in {"*", "10.0.*", "web?"}

\* strings.HasPrefix(strings.ToLower(line), "host ") on a trimmed line.
HasHostPrefix(line) == line.kw \in {"Host ", "host ", "HOST "}

\* The lookup set exportSSHConfig builds of the content of the file.
exportExistingAliases(file) ==
    UNION {{ToLower(file.lines[i].args[k]) :
                k \in {n \in 1..Len(file.lines[i].args) :
                          ~isWildcard(file.lines[i].args[n])}} :
              i \in {n \in 1..Len(file.lines) : HasHostPrefix(file.lines[n])}}

\* strings.Fields on the texts the model uses: the blank-separated words.
Fields(text) ==
    CASE text = "" -> <<>>
      [] text = "Copy of web" -> <<"Copy", "of", "web">>
      [] OTHER -> <<text>>

\* The lines of the block of one host: "Host " + h.Alias is a line whose
\* arguments are the words of the alias.
exportBlock(h) ==
    <<ConfigLine("Host ", Fields(h.Alias)), ConfigLine("HostName ", <<h.Hostname>>)>>
    \o (IF h.Port # <<>> /\ h.Port # <<"2", "2">>
        THEN <<ConfigLine("Port ", <<h.Port>>)>> ELSE <<>>)

\* The loop of exportSSHConfig over the hosts: [entries, skipped].
RECURSIVE exportFrom(_, _, _, _, _)
exportFrom(hosts, i, existingAliases, entries, skipped) ==
    IF i > Len(hosts) THEN [entries |-> entries, skipped |-> skipped]
    ELSE LET h == hosts[i]
             key == ToLower(h.Alias)
         IN IF h.IsContainer \/ h.Alias = "" \/ h.Hostname = ""
            THEN exportFrom(hosts, i + 1, existingAliases, entries, skipped)
            ELSE IF key \in existingAliases
            THEN exportFrom(hosts, i + 1, existingAliases, entries, skipped + 1)
            ELSE exportFrom(hosts, i + 1, existingAliases \cup {key},
                            Append(entries, exportBlock(h)), skipped)

\* strings.Join(entries, "\n\n"): the blocks with a blank line between.
RECURSIVE JoinBlocks(_)
JoinBlocks(entries) ==
    IF entries = <<>> THEN <<>>
    ELSE IF Len(entries) = 1 THEN entries[1]
    ELSE entries[1] \o <<BlankLine>> \o JoinBlocks(Tail(entries))

\* What exportSSHConfig appends to a file with this content.
exportAppended(file, entries) ==
    (IF file.lines # <<>> THEN <<BlankLine>> ELSE <<>>) \o JoinBlocks(entries)

\* exportSSHConfig as it would be if the file were opened without O_APPEND
\* and truncated.
exportSSHConfigTruncates(hosts, file, fault) ==
    LET r == exportFrom(hosts, 1, exportExistingAliases(file), <<>>, 0)
    IN IF Len(r.entries) = 0 \/ fault # "none"
       THEN [exported |-> 0, skipped |-> r.skipped, err |-> fault # "none",
             file |-> file]
       ELSE [exported |-> Len(r.entries), skipped |-> r.skipped, err |-> FALSE,
             file |-> ExternalFile(JoinBlocks(r.entries), TRUE)]

\* exportSSHConfig; fault names the call that returns an error.
\* Result: [exported, skipped, err, file].
exportSSHConfig(hosts, file, fault) ==
    LET r == exportFrom(hosts, 1, exportExistingAliases(file), <<>>, 0)
        exported == Len(r.entries)
        added == exportAppended(file, r.entries)
    IN CASE fault = "mkdir" ->
              [exported |-> 0, skipped |-> 0, err |-> TRUE, file |-> file]
         [] exported = 0 ->
              [exported |-> 0, skipped |-> r.skipped, err |-> FALSE, file |-> file]
         [] fault = "open" ->
              [exported |-> 0, skipped |-> r.skipped, err |-> TRUE, file |-> file]
         [] fault = "write" ->
              \* some of the bytes are written: here the first line alone
              [exported |-> exported, skipped |-> r.skipped, err |-> TRUE,
               file |-> ExternalFile(file.lines \o SubSeq(added, 1, 1), FALSE)]
         [] OTHER ->
              [exported |-> exported, skipped |-> r.skipped, err |-> FALSE,
               file |-> ExternalFile(file.lines \o added, TRUE)]

ExportFaults == {"none", "mkdir", "open", "write"}

\* The hosts the export can find in the list.
ExportPool ==
    {NewHost("h1", "web", "10.0.0.1", "", ""),
     NewHost("h2", "WEB", "10.0.0.2", "", ""),
     [NewHost("h3", "db", "10.0.0.3", "", "") EXCEPT !.Port = <<"2", "2", "2", "2">>],
     [NewHost("c1", "app", "abc123", "", "") EXCEPT !.IsContainer = TRUE],
     NewHost("h4", "", "no-alias.example.com", "", ""),
     NewHost("h5", "nohost", "", "", "")}

ExportHostLists ==
    {hosts \in UNION {[1..n -> ExportPool] : n \in 0..MaxExportHosts} :
        \A i, j \in 1..Len(hosts) : i # j => hosts[i] # hosts[j]}

\* What the external file can hold before the export.
ExportFiles ==
    {NoExternalFile,
     ExternalFile(<<ConfigLine("Host ", <<"web">>),
                    ConfigLine("HostName ", <<"1.1.1.1">>)>>, TRUE),
     ExternalFile(<<ConfigLine("host ", <<"DB", "10.0.*">>)>>, FALSE),
     ExternalFile(<<ConfigLine("Host ", <<"*">>),
                    ConfigLine("HostName ", <<"web">>)>>, TRUE),
     ExternalFile(<<ConfigLine("Host=", <<"db">>),
                    ConfigLine("HostName ", <<"3.3.3.3">>)>>, TRUE)}

\* fmt.Sprintf("Exported %d hosts to ~/.ssh/config (%d skipped)", ...)
ExportedMessage(exported, skipped) ==
    "Exported " \o ToString(exported) \o " hosts to ~/.ssh/config ("
        \o ToString(skipped) \o " skipped)"

ExportInit ==
    /\ profile = "hosts"
    /\ storePassword = TRUE
    /\ \E hosts \in ExportHostLists :
          disk = FullFile(configFile(configVersion, LoadGroups, hosts, LoadHistory))
    /\ tmp = Absent
    /\ m = initialModel(disk, {}, FileIDs(disk))
    /\ scans = {}
    /\ ev = Event("start", "none")
    /\ savePc = "idle" /\ saveIn = <<>>
    /\ \E file \in ExportFiles :
          /\ fnIn = [op |-> "input", file |-> file, before |-> <<>>, exports |-> 0]
          /\ fnOut = [exported |-> 0, skipped |-> 0, err |-> FALSE, file |-> file]

\* ctrl+e, with the external file: what exportSSHConfig finds in fnOut.file
\* and leaves there
ExportKey ==
    /\ ~m.quitting /\ m.sshToRun.kind = "nil" /\ m.state = "list"
    /\ savePc = "idle"
    /\ fnIn.exports < MaxExports
    /\ \E fault \in ExportFaults :
          LET r == exportSSHConfig(m.rawHosts, fnOut.file, fault)
          IN /\ m' = [ListPre("ctrl+e") EXCEPT
                        !.statusMessage =
                            IF r.err THEN "cannot open SSH config"
                            ELSE ExportedMessage(r.exported, r.skipped),
                        !.statusIsError = r.err]
             /\ fnIn' = [op |-> "export", file |-> fnOut.file,
                         before |-> <<m.rawGroups, m.rawHosts, m.history>>,
                         exports |-> fnIn.exports + 1]
             /\ fnOut' = r
    /\ ev' = Event("export", "none")
    /\ NoFileChange
    /\ UNCHANGED <<scans, savePc, saveIn>>

ExportNext == ExportKey \/ ListOtherKey

SpecExport == ExportInit /\ [][ExportNext]_vars

\* -------------------------------------------- exportSSHConfig, repeated
\* The hosts of the lists exported twice: two hosts, a copy the duplicate
\* command has made of the first, a case variant, a container.
TwicePool ==
    {NewHost("h1", "web", "10.0.0.1", "", ""),
     NewHost("h2", "Copy of web", "10.0.0.1", "", ""),
     NewHost("h3", "WEB", "10.0.0.2", "", ""),
     [NewHost("h4", "db", "10.0.0.3", "", "") EXCEPT !.Port = <<"2", "2", "2", "2">>],
     [NewHost("c1", "app", "abc123", "", "") EXCEPT !.IsContainer = TRUE]}

TwiceHostLists ==
    {hosts \in UNION {[1..n -> TwicePool] : n \in 0..MaxExportHosts} :
        \A i, j \in 1..Len(hosts) : i # j => hosts[i] # hosts[j]}

TwiceInit ==
    /\ profile = "hosts"
    /\ storePassword = TRUE
    /\ m = initialModel(Absent, {}, {})
    /\ scans = {}
    /\ ev = Event("start", "none")
    /\ disk = Absent /\ tmp = Absent
    /\ savePc = "idle" /\ saveIn = <<>>
    /\ \E hosts \in TwiceHostLists, file \in ExportFiles :
          fnIn = [op |-> "input", hosts |-> hosts, file |-> file]
    /\ fnOut = <<>>

TwiceFrame == UNCHANGED <<m, disk, tmp, storePassword, scans, ev, savePc, saveIn, profile>>

\* exportSSHConfig on the drawn hosts and file
ExportOnce ==
    /\ fnIn.op = "input"
    /\ \E fault \in ExportFaults :
          fnOut' = [first |-> exportSSHConfig(fnIn.hosts, fnIn.file, fault)]
    /\ fnIn' = [fnIn EXCEPT !.op = "exportSSHConfig"]
    /\ TwiceFrame

\* exportSSHConfig again, on the same hosts and the file the first call has
\* left
ExportAgain ==
    /\ fnIn.op = "exportSSHConfig"
    /\ \E fault \in ExportFaults :
          fnOut' = [first |-> fnOut.first,
                    second |-> exportSSHConfig(fnIn.hosts, fnOut.first.file, fault)]
    /\ fnIn' = [fnIn EXCEPT !.op = "again"]
    /\ TwiceFrame

TwiceNext == ExportOnce \/ ExportAgain

SpecExportTwice == TwiceInit /\ [][TwiceNext]_vars

\* --------------------------------------------- the import key, repeated
ImportInit ==
    /\ profile = "import"
    /\ storePassword = TRUE
    /\ \E existing \in ImportExisting :
          disk = FullFile(configFile(configVersion, <<>>, existing, <<>>))
    /\ tmp = Absent
    /\ m = initialModel(disk, {}, FileIDs(disk))
    /\ scans = {}
    /\ ev = Event("start", "none")
    /\ savePc = "idle" /\ saveIn = <<>>
    /\ \E parsed \in ImportParsed : fnIn = [parsed |-> parsed]
    /\ fnOut = <<>>

\* i, the external file holding the same blocks every time
ImportFile == ListImportOf(fnIn.parsed)

ImportNext == ImportFile \/ ListImportFails \/ ListOtherKey

SpecImport == ImportInit /\ [][ImportNext]_vars

\* ------------------------------------------- saveConfig, then loadConfig
\* A container of host h1 as a scan or a file gives it.
RoundContainer(password, ref) ==
    [NewHost("c1", "app", "h1", password, "") EXCEPT
        !.IsContainer = TRUE, !.ParentID = "h1", !.ListIndent = 1,
        !.PasswordRef = ref]

RoundHost(password, ref, containers) ==
    [NewHost("h1", "web", "10.0.0.1", password, "g1") EXCEPT
        !.PasswordRef = ref, !.Expanded = containers # <<>>,
        !.Containers = containers, !.Port = <<"2", "2">>]

\* The secrets a host can hold: none, a password typed in, a reference of an
\* earlier save with or without the password it stands for.
RoundSecrets == {<<"", "">>, <<Secret, "">>, <<"", "r">>, <<Secret, "r">>}

RoundHostLists ==
    {<<>>}
    \cup {<<RoundHost(s[1], s[2], <<>>)>> : s \in RoundSecrets}
    \cup {<<RoundHost(s[1], s[2], <<RoundContainer(c[1], c[2])>>),
            NewHost("h2", "db", "10.0.0.2", p, "")>> :
              s \in RoundSecrets, c \in RoundSecrets, p \in {"", Secret}}

\* The references of a list of hosts, containers included.
RECURSIVE RefsOf(_)
RefsOf(hosts) ==
    UNION {{hosts[i].ID, hosts[i].PasswordRef} \cup RefsOf(hosts[i].Containers) :
              i \in 1..Len(hosts)}

\* What the keychain does in one call of saveConfig or loadConfig: every
\* reference served, none, or the top-level host's alone.
KeychainChoices(hosts) == {{}, RefsOf(hosts), {"h1", "r"} \cap RefsOf(hosts)}

RoundInit ==
    /\ profile = "secrets"
    /\ storePassword \in BOOLEAN
    /\ m = initialModel(Absent, {}, {})
    /\ scans = {}
    /\ ev = Event("start", "none")
    /\ disk = Absent /\ tmp = Absent
    /\ savePc = "idle" /\ saveIn = <<>>
    /\ \E hosts \in RoundHostLists, full \in BOOLEAN :
          fnIn = [op |-> "input",
                  groups |-> IF full THEN LoadGroups ELSE <<>>,
                  hosts |-> hosts,
                  history |-> IF full THEN LoadHistory ELSE <<>>,
                  saves |-> 0, persist |-> <<>>, storeOK |-> {}, lookupOK |-> {}]
    /\ fnOut = <<>>

RoundFrame == UNCHANGED <<m, scans, ev, savePc, saveIn, profile>>

\* saveConfig of the drawn lists, under the policy of the moment
RoundSave ==
    /\ fnIn.op \in {"input", "saved"} /\ fnIn.saves < MaxRoundSaves
    /\ \E storeOK \in KeychainChoices(fnIn.hosts), fail \in {"none", "rename"} :
          LET r == saveConfig(fnIn.groups, fnIn.hosts, fnIn.history,
                              storePassword, storeOK, fail,
                              [disk |-> disk, tmp |-> tmp])
          IN /\ disk' = r.disk /\ tmp' = r.tmp
             /\ fnIn' = IF r.err
                         THEN [fnIn EXCEPT !.saves = fnIn.saves + 1]
                         ELSE [fnIn EXCEPT !.op = "saved",
                                           !.saves = fnIn.saves + 1,
                                           !.persist = Append(fnIn.persist, storePassword),
                                           !.storeOK = storeOK]
    /\ UNCHANGED <<storePassword, fnOut>>
    /\ RoundFrame

\* ASSHO_STORE_PASSWORD is changed between two saves
RoundPolicy ==
    /\ fnIn.op = "saved" /\ fnIn.saves < MaxRoundSaves
    /\ storePassword' = ~storePassword
    /\ UNCHANGED <<disk, tmp, fnIn, fnOut>>
    /\ RoundFrame

\* loadConfig of the file saved
RoundLoad ==
    /\ fnIn.op = "saved"
    /\ \E lookupOK \in KeychainChoices(fnIn.hosts) :
          /\ fnOut' = loadConfig(disk, lookupOK, {})
          /\ fnIn' = [fnIn EXCEPT !.op = "loaded", !.lookupOK = lookupOK]
    /\ UNCHANGED <<disk, tmp, storePassword>>
    /\ RoundFrame

RoundNext == RoundSave \/ RoundPolicy \/ RoundLoad

SpecRound == RoundInit /\ [][RoundNext]_vars

\* ------------------------------------------- the list view on a larger tree
MaxTreeHosts == 3
MaxTreeGroups == 3

\* Group k of the tree; the first group may be collapsed.
TreeGroups(collapsed) ==
    [k \in 1..MaxTreeGroups |->
        NewGroup("g" \o ToString(k), "group" \o ToString(k), ~(k = 1 /\ collapsed))]

\* The hosts of the tree, each in no group or in one of the first two groups;
\* the first host has been scanned, has one container and is expanded.
TreeHosts(gid) ==
    [k \in 1..MaxTreeHosts |->
        [NewHost("h" \o ToString(k), "host" \o ToString(k), "10.0.0.1", "", gid[k])
            EXCEPT !.Expanded = (k = 1),
                   !.Containers =
                       IF k = 1
                       THEN <<[NewHost("c1", "app", "c0ffee", "", "")
                                  EXCEPT !.IsContainer = TRUE, !.ParentID = "h1"]>>
                       ELSE <<>>]]

\* The program after it has saved such a tree, with these scans running.
TreeStart(gids, pending) ==
    /\ profile = "groups"
    /\ storePassword = TRUE
    /\ \E gid \in gids, collapsed \in BOOLEAN :
          /\ m = SetItems([initialModel(Absent, {}, {}) EXCEPT
                              !.rawGroups = TreeGroups(collapsed),
                              !.rawHosts = TreeHosts(gid)])
          /\ disk = FullFile(configFile(configVersion, TreeGroups(collapsed),
                                        TreeHosts(gid), <<>>))
    /\ tmp = Absent
    /\ scans = pending
    /\ ev = Event("start", "none")
    /\ savePc = "idle" /\ saveIn = <<>>
    /\ fnIn = <<>> /\ fnOut = <<>>

TreeInit == TreeStart([1..MaxTreeHosts -> {"", "g1", "g2"}], {})

TreeNext == ListNavigate \/ ListMove

SpecTree == TreeInit /\ [][TreeNext]_vars

\* ------------------------------------------------ deletes on the tree
\* The tree with members in two groups, or with a host in no group, while a
\* scan of the first host is under way.
DeleteInit ==
    TreeStart({[k \in 1..MaxTreeHosts |-> IF k = 2 THEN "g2" ELSE "g1"],
               [k \in 1..MaxTreeHosts |->
                    IF k = 1 THEN "" ELSE IF k = 2 THEN "g1" ELSE "g2"]},
              {[hostIndex |-> 1, hostID |-> "h1"]})

DeleteNext ==
    \/ ListNavigate \/ ListOtherKey \/ ListDeleteArm \/ ListDeleteGroup
    \/ ListDeleteHost \/ ScanResult

SpecDelete == DeleteInit /\ [][DeleteNext]_vars

\* ================================================================ claims
\* The part of the model the store persists.
Persisted(mm) == <<mm.rawGroups, mm.rawHosts, mm.history>>

\* The fields of a host as the document holds them, secrets aside.
RECURSIVE StoredFields(_)
StoredFields(hosts) ==
    [i \in 1..Len(hosts) |->
        [ID |-> hosts[i].ID, Alias |-> hosts[i].Alias,
         Hostname |-> hosts[i].Hostname, GroupID |-> hosts[i].GroupID,
         IsContainer |-> hosts[i].IsContainer, Port |-> hosts[i].Port,
         Containers |-> StoredFields(hosts[i].Containers)]]

\* ------------------------------------------------------- the form alone
\* The document of a run that has made a group, two hosts and scanned the
\* first: web, in the group, with a container, and db, in no group.
FormFile ==
    FullFile(configFile(configVersion,
        <<NewGroup(IDName(3), "prod", TRUE)>>,
        <<[NewHost(IDName(1), "web", "10.0.0.1", "", IDName(3)) EXCEPT
              !.Containers = <<[NewHost(IDName(2), "app", "c0ffee", "", "")
                                   EXCEPT !.IsContainer = TRUE]>>],
          NewHost(IDName(4), "db", "10.0.0.1", "", "")>>,
        <<>>))

\* The first host is expanded or not, as right and left leave it.
FormInit ==
    /\ profile = "form"
    /\ storePassword = TRUE
    /\ disk = FormFile /\ tmp = Absent
    /\ \E expanded \in BOOLEAN :
          LET m0 == initialModel(disk, {}, FileIDs(disk))
          IN m = SetItems([m0 EXCEPT !.rawHosts[1].Expanded = expanded])
    /\ scans = {}
    /\ ev = Event("start", "none")
    /\ savePc = "idle" /\ saveIn = <<>>
    /\ fnIn = <<>> /\ fnOut = <<>>

FormNext ==
    \/ ListNavigate \/ ListOtherKey \/ ListNew \/ ListEdit \/ ListDuplicate
    \/ FormSave \/ FormKey \/ FormLeave

SpecForm == FormInit /\ [][FormNext]_vars

\* ------------------------------------------------- initialModel alone
\* The documents the program can find at start: with every identifier, with
\* none, with the identifier of the container missing.
StartContainer(id) ==
    [NewHost(id, "app", "c0ffee", "", "") EXCEPT !.IsContainer = TRUE]
StartHosts(id, cid, gid) ==
    <<[NewHost(id, "web", "10.0.0.1", "", gid) EXCEPT
          !.Containers = <<StartContainer(cid)>>]>>

StartFiles ==
    {Absent, ScalarFile, DeniedFile,
     FullFile(configFile(configVersion, <<NewGroup("g1", "prod", TRUE)>>,
                         StartHosts("h1", "c1", "g1"), <<NewEntry("h1", "web")>>)),
     FullFile(configFile(configVersion, <<NewGroup("", "prod", TRUE)>>,
                         StartHosts("", "", ""), <<>>)),
     FullFile(configFile(configVersion, <<NewGroup("g1", "prod", TRUE)>>,
                         StartHosts("h1", "", "g1"), <<>>)),
     FullFile(configFile(0, <<NewGroup("", "prod", TRUE)>>, <<>>, <<>>)),
     ListFile(EncodeHosts(StartHosts("h1", "c1", ""))),
     ListFile(EncodeHosts(StartHosts("", "c1", "")))}

StartInit ==
    /\ profile = "groups"
    /\ storePassword \in BOOLEAN
    /\ m = initialModel(Absent, {}, {})
    /\ scans = {}
    /\ ev = Event("start", "none")
    /\ disk \in StartFiles /\ tmp = Absent
    /\ savePc = "idle" /\ saveIn = <<>>
    /\ \E legacy \in StartFiles, fail \in {"none", "write", "rename"} :
          fnIn = [op |-> "input", canonical |-> disk, legacy |-> legacy,
                  fail |-> fail]
    /\ fnOut = <<>>

\* initialModel() up to the list it builds: loadConfig, ensureHostIDs,
\* ensureGroupIDs and the save of the identifiers they have assigned.
StartApply ==
    /\ fnIn.op = "input"
    /\ \E fail \in {"none", fnIn.fail} :
       \E r \in {loadConfigPaths(fnIn.legacy, {}, {}, storePassword, {},
                                  fnIn.fail, [disk |-> disk, tmp |-> tmp])} :
       \E hs \in {ensureHostIDs(r.hosts, HostIDsOf(r.hosts))} :
       \E gs \in {ensureGroupIDs(r.groups, hs.used)} :
       \E s \in {IF hs.changed \/ gs.changed
                  THEN saveConfig(gs.groups, hs.hosts, r.history, storePassword,
                                  {}, fail, [disk |-> r.disk, tmp |-> r.tmp])
                  ELSE [disk |-> r.disk, tmp |-> r.tmp, err |-> FALSE]} :
          /\ fnOut' = [groups |-> gs.groups, hosts |-> hs.hosts,
                        history |-> r.history,
                        err |-> r.error # "" \/ s.err]
          /\ disk' = s.disk /\ tmp' = s.tmp
    /\ fnIn' = [fnIn EXCEPT !.op = "initialModel"]
    /\ UNCHANGED <<m, storePassword, scans, ev, savePc, saveIn, profile>>

StartNext == StartApply

SpecStart == StartInit /\ [][StartNext]_vars

\* ------------------------------------------- saveConfig and the memory
\* The memory saveConfig reaches: the backing arrays of the []Host slices, one
\* for each address 1, 2, ...; a slice is the address of its array, 0 when it
\* is empty, and a Host in an array has the slice of its containers in
\* Containers.
RECURSIVE makeSlice(_, _)
RECURSIVE makeCells(_, _, _, _)
\* The hosts put into memory: [heap, slice].
makeSlice(heap, hosts) ==
    IF hosts = <<>> THEN [heap |-> heap, slice |-> 0]
    ELSE LET r == makeCells(heap, hosts, 1, <<>>)
         IN [heap |-> Append(r.heap, r.cells), slice |-> Len(r.heap) + 1]

makeCells(heap, hosts, i, cells) ==
    IF i > Len(hosts) THEN [heap |-> heap, cells |-> cells]
    ELSE LET c == makeSlice(heap, hosts[i].Containers)
         IN makeCells(c.heap, hosts, i + 1,
                      Append(cells, [hosts[i] EXCEPT !.Containers = c.slice]))

\* The hosts a slice stands for.
RECURSIVE sliceValue(_, _)
sliceValue(heap, slice) ==
    IF slice = 0 THEN <<>>
    ELSE [i \in 1..Len(heap[slice]) |->
            [heap[slice][i] EXCEPT
                !.Containers = sliceValue(heap, heap[slice][i].Containers)]]

\* What sanitizeHostsForSave does to the password fields of sanitized[i].
scrubHost(h, persist, storeOK) ==
    IF ~persist
    THEN [h EXCEPT !.Password = "", !.PasswordRef = ""]
    ELSE IF h.Password # "" /\ storePasswordSecretOK(h.ID, h.Password, storeOK)
         THEN [h EXCEPT !.PasswordRef = h.ID, !.Password = ""]
         ELSE h

\* The loop of sanitizeHostsForSave as it would be if it scrubbed the
\* containers through the slice the copy of the host shares with the host.
RECURSIVE sanitizeCellsShared(_, _, _, _, _, _)
sanitizeCellsShared(heap, slice, i, cells, persist, storeOK) ==
    IF i > Len(heap[slice]) THEN [heap |-> heap, cells |-> cells]
    ELSE LET h == heap[slice][i]
             kids == h.Containers
             heap1 == IF kids = 0 THEN heap
                      ELSE [heap EXCEPT ![kids] =
                              [k \in 1..Len(heap[kids]) |->
                                  scrubHost(heap[kids][k], persist, storeOK)]]
         IN sanitizeCellsShared(heap1, slice, i + 1,
                                Append(cells, scrubHost(h, persist, storeOK)),
                                persist, storeOK)

RECURSIVE sanitizeHostsForSaveAt(_, _, _, _)
RECURSIVE sanitizeCells(_, _, _, _, _, _)
\* The loop of sanitizeHostsForSave from host i on; cells are the elements of
\* sanitized written so far.
sanitizeCells(heap, slice, i, cells, persist, storeOK) ==
    IF i > Len(heap[slice]) THEN [heap |-> heap, cells |-> cells]
    ELSE LET h == heap[slice][i]
             kids == IF h.Containers # 0
                     THEN sanitizeHostsForSaveAt(heap, h.Containers, persist, storeOK)
                     ELSE [heap |-> heap, slice |-> h.Containers]
         IN sanitizeCells(kids.heap, slice, i + 1,
                          Append(cells, [scrubHost(h, persist, storeOK) EXCEPT
                                            !.Containers = kids.slice]),
                          persist, storeOK)

\* sanitizeHostsForSave on the memory: sanitized is a new array.
\* Result: [heap, slice].
sanitizeHostsForSaveAt(heap, slice, persist, storeOK) ==
    IF slice = 0 THEN [heap |-> heap, slice |-> 0]
    ELSE LET r == sanitizeCells(heap, slice, 1, <<>>, persist, storeOK)
         IN [heap |-> Append(r.heap, r.cells), slice |-> Len(r.heap) + 1]

MemInit ==
    /\ profile = "secrets"
    /\ storePassword \in BOOLEAN
    /\ m = initialModel(Absent, {}, {})
    /\ scans = {}
    /\ ev = Event("start", "none")
    /\ disk = Absent /\ tmp = Absent
    /\ savePc = "idle" /\ saveIn = <<>>
    /\ \E hosts \in RoundHostLists, fail \in FailPoints :
          \E storeOK \in KeychainChoices(hosts) :
             fnIn = [op |-> "input", hosts |-> hosts, fail |-> fail,
                     storeOK |-> storeOK]
    /\ fnOut = <<>>

\* saveConfig called with the hosts in memory
MemSave ==
    /\ fnIn.op = "input"
    /\ LET st == makeSlice(<<>>, fnIn.hosts)
           r == sanitizeHostsForSaveAt(st.heap, st.slice, storePassword,
                                       fnIn.storeOK)
           reached == fnIn.fail \notin {"mkdir", "create"}
           s == saveConfig(LoadGroups, fnIn.hosts, LoadHistory, storePassword,
                           fnIn.storeOK, fnIn.fail, [disk |-> disk, tmp |-> tmp])
       IN /\ fnOut' = [before |-> st.heap, hosts |-> st.slice,
                        after |-> IF reached THEN r.heap ELSE st.heap,
                        sanitized |-> IF reached THEN r.slice ELSE 0,
                        reached |-> reached, err |-> s.err]
          /\ disk' = s.disk /\ tmp' = s.tmp
    /\ fnIn' = [fnIn EXCEPT !.op = "saveConfig"]
    /\ UNCHANGED <<m, storePassword, scans, ev, savePc, saveIn, profile>>

MemNext == MemSave

SpecMemory == MemInit /\ [][MemNext]_vars

\* ------------------------------------------------------- parseSSHConfig
\* A line of the external file is [kw, args] as above; kw ends with the
\* character that follows the keyword in the file: a blank, a tab or =.
KeywordText(kw) ==
    CASE kw \in {"Host ", "Host=", "Host\t"} -> "Host"
      [] kw = "HOST " -> "HOST"
      [] kw = "host " -> "host"
      [] kw \in {"HostName ", "HostName\t", "HostName="} -> "HostName"
      [] kw \in {"User ", "User="} -> "User"
      [] kw = "Port " -> "Port"
      [] kw = "IdentityFile " -> "IdentityFile"
      [] kw \in {"Match ", "Match\t"} -> "Match"
      [] kw = "ProxyJump " -> "ProxyJump"
      [] OTHER -> kw

SeparatorOf(kw) ==
    CASE kw \in {"Host=", "HostName=", "User="} -> "="
      [] kw \in {"Host\t", "HostName\t", "Match\t"} -> "\t"
      [] kw \in {"", "# "} -> ""
      [] OTHER -> " "

\* strings.IndexByte(word, '=') != -1 on the words the model uses, and the
\* text of such a word before its =.
ContainsEquals(word) == word \in {"a=b"}
BeforeEquals(word) == IF word = "a=b" THEN "a" ELSE word

\* strings.Join(words, " ")
RECURSIVE JoinWords(_)
JoinWords(words) ==
    IF words = <<>> THEN ""
    ELSE IF Len(words) = 1 THEN words[1]
    ELSE words[1] \o " " \o JoinWords(Tail(words))

\* splitDirective on a trimmed line that is neither blank nor a comment:
\* [keyword, args], args as its blank-separated words.
splitDirective(line) ==
    LET eqs == {k \in 1..Len(line.args) : ContainsEquals(line.args[k])}
    IN IF SeparatorOf(line.kw) = "="
       THEN [keyword |-> KeywordText(line.kw), args |-> line.args]
       ELSE IF eqs # {}
       THEN \* the line is cut at the first = of its arguments
            LET k == CHOOSE n \in eqs : \A j \in eqs : n <= j
            IN [keyword |-> line.kw \o JoinWords(SubSeq(line.args, 1, k - 1))
                                    \o (IF k > 1 THEN " " ELSE "")
                                    \o BeforeEquals(line.args[k]),
                args |-> SubSeq(line.args, k + 1, Len(line.args))]
       ELSE IF SeparatorOf(line.kw) = " "
       THEN [keyword |-> KeywordText(line.kw), args |-> line.args]
       ELSE \* strings.SplitN(line, " ", 2) cuts at the first blank, and a
            \* tab is none
            [keyword |-> line.kw \o (IF line.args = <<>> THEN "" ELSE line.args[1]),
             args |-> IF line.args = <<>> THEN <<>> ELSE Tail(line.args)]

\* hostBlock{aliases: clean}
NewBlock(aliases) ==
    [aliases |-> aliases, hostname |-> <<>>, user |-> <<>>, port |-> <<>>,
     identity |-> <<>>]

\* The loop of parseSSHConfig over the lines from line i on: the blocks, with
\* current the block that is open (<<>> for nil).
RECURSIVE parseLines(_, _, _, _, _)
parseLines(lines, i, blocks, current, inMatch) ==
    IF i > Len(lines)
    THEN blocks \o current
    ELSE LET line == lines[i]
             d == splitDirective(line)
             keyword == ToLower(d.keyword)
         IN IF line.kw \in {"", "# "}
            THEN parseLines(lines, i + 1, blocks, current, inMatch)
            ELSE IF keyword = "match"
            THEN parseLines(lines, i + 1, blocks \o current, <<>>, TRUE)
            ELSE IF keyword = "host"
            THEN LET clean == SelectSeq(d.args, LAMBDA a : ~isWildcard(a))
                 IN parseLines(lines, i + 1, blocks \o current,
                               IF clean = <<>> THEN <<>> ELSE <<NewBlock(clean)>>,
                               FALSE)
            ELSE IF inMatch \/ current = <<>>
            THEN parseLines(lines, i + 1, blocks, current, inMatch)
            ELSE LET b == current[1]
                     b1 == CASE keyword = "hostname" -> [b EXCEPT !.hostname = d.args]
                             [] keyword = "user" -> [b EXCEPT !.user = d.args]
                             [] keyword = "port" -> [b EXCEPT !.port = d.args]
                             [] keyword = "identityfile" -> [b EXCEPT !.identity = d.args]
                             [] OTHER -> b
                 IN parseLines(lines, i + 1, blocks, <<b1>>, inMatch)

\* The hosts parseSSHConfig makes of one block, one for each alias; the
\* values are kept as their words.
blockHosts(b) ==
    [k \in 1..Len(b.aliases) |->
        [Alias |-> b.aliases[k],
         Hostname |-> IF b.hostname = <<>> THEN <<b.aliases[k]>> ELSE b.hostname,
         User |-> b.user,
         Port |-> IF b.port = <<>> THEN <<"22">> ELSE b.port,
         IdentityFile |-> b.identity]]

\* parseSSHConfig of a file that can be read: the hosts, without their
\* identifiers.
parseSSHConfig(lines) ==
    LET blocks == parseLines(lines, 1, <<>>, <<>>, FALSE)
    IN Concat([i \in 1..Len(blocks) |-> blockHosts(blocks[i])])

\* The lines the files of this check are made of.
ParseLineChoices ==
    {ConfigLine("Host ", <<"web">>), ConfigLine("Host ", <<"*">>),
     ConfigLine("Host ", <<"foo", "bar">>), ConfigLine("host ", <<"10.0.*", "db">>),
     ConfigLine("Host\t", <<"db">>),
     ConfigLine("HostName ", <<"multi.example.com">>),
     ConfigLine("HostName\t", <<"10.0.0.2">>),
     ConfigLine("User ", <<"root">>), ConfigLine("User=", <<"admin">>),
     ConfigLine("Port ", <<"2222">>),
     ConfigLine("IdentityFile ", <<"~/.ssh/id">>),
     ConfigLine("ProxyJump ", <<"bastion">>),
     ConfigLine("Match ", <<"all">>), ConfigLine("Match ", <<"exec", "a=b">>),
     ConfigLine("# ", <<"note">>), BlankLine}

ParseFiles ==
    UNION {[1..n -> ParseLineChoices] : n \in 0..MaxParseLines}

ParseInit ==
    /\ profile = "hosts"
    /\ storePassword = TRUE
    /\ m = initialModel(Absent, {}, {})
    /\ scans = {}
    /\ ev = Event("start", "none")
    /\ disk = Absent /\ tmp = Absent
    /\ savePc = "idle" /\ saveIn = <<>>
    /\ \E lines \in ParseFiles : fnIn = [op |-> "input", lines |-> lines]
    /\ fnOut = <<>>

\* parseSSHConfig applied to the drawn file
ParseApply ==
    /\ fnIn.op = "input"
    /\ fnIn' = [fnIn EXCEPT !.op = "parseSSHConfig"]
    /\ fnOut' = parseSSHConfig(fnIn.lines)
    /\ UNCHANGED <<m, disk, tmp, storePassword, scans, ev, savePc, saveIn, profile>>

ParseNext == ParseApply

SpecParse == ParseInit /\ [][ParseNext]_vars

\* C1: a store mutation (form save, delete from the list or the form, group
\* create, rename and delete, reorder, import, history record on connect)
\* whose save fails returns with groups, hosts (containers included) and
\* history equal to what they were immediately before it.
RollbackOnFailedSave ==
    [][ev'.save = "fail" => Persisted(m') = Persisted(m)]_vars

\* A host deletion whose save has failed, the host having containers.
FailedDeleteOfScannedHost ==
    /\ ev.op = "deleteHost" /\ ev.save = "fail"
    /\ \E i \in 1..Len(m.rawHosts) : Len(m.rawHosts[i].Containers) > 0

\* C2: after every handled event the persisted part of the model in memory
\* (groups with their expansion flag, hosts with their containers, history)
\* equals the content of the document saved last.
MemoryIsSaved ==
    ev.op # "start" =>
        /\ disk.kind = "full"
        /\ disk.doc.Groups = m.rawGroups
        /\ StoredFields(disk.doc.Hosts) = StoredFields(m.rawHosts)
        /\ disk.doc.History = m.history

\* C3: what the document holds for the hosts in memory: the same hosts in
\* the same order, no transient field, and of the secret nothing when
\* passwords are not persisted, else the keychain reference in place of the
\* password or the fields as they are in memory.
RECURSIVE HostsStored(_, _, _)
HostsStored(stored, hosts, persist) ==
    /\ Len(stored) = Len(hosts)
    /\ \A i \in 1..Len(hosts) :
          /\ DOMAIN stored[i] = {"ID", "Alias", "Hostname", "Password",
                                 "PasswordRef", "GroupID", "Containers",
                                 "IsContainer", "Port"}
          /\ stored[i].Port = hosts[i].Port
          /\ stored[i].ID = hosts[i].ID
          /\ stored[i].Alias = hosts[i].Alias
          /\ stored[i].Hostname = hosts[i].Hostname
          /\ stored[i].GroupID = hosts[i].GroupID
          /\ stored[i].IsContainer = hosts[i].IsContainer
          /\ IF ~persist
             THEN stored[i].Password = "" /\ stored[i].PasswordRef = ""
             ELSE \/ /\ hosts[i].Password # ""
                     /\ stored[i].Password = ""
                     /\ stored[i].PasswordRef = hosts[i].ID
                  \/ /\ stored[i].Password = hosts[i].Password
                     /\ stored[i].PasswordRef = hosts[i].PasswordRef
          /\ HostsStored(stored[i].Containers, hosts[i].Containers, persist)

\* C3: after a mutation whose save succeeds the canonical file holds exactly
\* the groups, hosts and history the model holds when the handler returns;
\* after one whose save fails, at whichever step, the canonical file is what
\* it was before.
DocumentMirrorsMemory ==
    [][/\ ev'.save = "ok" =>
             /\ disk'.kind = "full"
             /\ disk'.doc.Version = 3
             /\ disk'.doc.Groups = m'.rawGroups
             /\ disk'.doc.History = m'.history
             /\ HostsStored(disk'.doc.Hosts, m'.rawHosts, storePassword)
       /\ ev'.save = "fail" => disk' = disk]_vars

\* A successful save that has put a password into the keychain and its
\* reference into the document, over an earlier document.
SavedWithKeychainRef ==
    /\ ev.save = "ok"
    /\ \E i \in 1..Len(m.rawHosts) :
          /\ m.rawHosts[i].Password = Secret
          /\ disk.doc.Hosts[i].Password = ""
          /\ disk.doc.Hosts[i].PasswordRef = m.rawHosts[i].ID

\* C4: while saveConfig runs, and when the process dies inside it, the
\* canonical file is the whole document it was when the call began or the
\* whole new document; the canonical file changes in the rename alone, which
\* puts there the completely written temp file.
CanonicalFileIsWhole ==
    [][/\ disk' = saveIn'.before \/ disk' = FullFile(saveIn'.doc)
       /\ disk'.kind \in {"absent", "full"}
       /\ disk' # disk =>
             /\ savePc = "rename"
             /\ tmp = FullFile(saveIn.doc)
             /\ disk' = FullFile(saveIn.doc)]_vars

\* The process has died after a part of a new document was written, an older
\* document being at the canonical path.
CrashedInWrite ==
    /\ savePc = "crashed"
    /\ tmp.kind = "partial"
    /\ disk.kind = "full"
    /\ tmp.doc # disk.doc

\* No two entries of the history share a host id.
NoDuplicateHost(history) ==
    \A i, j \in 1..Len(history) : i # j => history[i].HostID # history[j].HostID

\* C5: recordHistory returns a list that begins with the new entry for h,
\* holds no other entry for h, continues with the entries of the input for
\* other hosts in their order, and has at most 50 entries; a history grown
\* from the empty one by connects has no two entries for one host and at most
\* 50 entries.
RecordHistoryContract ==
    fnIn.op = "recordHistory" =>
        LET others == SelectSeq(fnIn.history, LAMBDA e : e.HostID # fnIn.hostID)
            kept == IF Len(others) < 49 THEN Len(others) ELSE 49
        IN /\ Len(fnOut) = 1 + kept
           /\ Len(fnOut) <= 50
           /\ fnOut[1] = NewEntry(fnIn.hostID, fnIn.alias)
           /\ \A i \in 2..Len(fnOut) :
                 fnOut[i].HostID # fnIn.hostID /\ fnOut[i] = others[i - 1]
           /\ fnIn.chain => NoDuplicateHost(fnOut)

\* The 52nd host of a run that began with an empty history, one earlier
\* connect having been to a host already in the history.
FullHistoryAfterConnects ==
    /\ fnIn.op = "recordHistory" /\ fnIn.chain
    /\ fnIn.connects = MaxConnects /\ fnIn.repeats = 1
    /\ Len(fnIn.history) = 50 /\ Len(fnOut) = 50

\* C6: the connection target is set, and the program quits, only by a connect
\* whose history entry has been recorded and saved; a connect whose save fails
\* sets no target, leaves the history as it was and sets an error status.
ConnectOnlyAfterSave ==
    [][/\ (m.sshToRun.kind = "nil" /\ m'.sshToRun.kind # "nil") =>
             /\ ev'.op = "connect" /\ ev'.save = "ok"
             /\ Len(m'.history) > 0
             /\ m'.history[1] = NewEntry(m'.sshToRun.ID, m'.sshToRun.host.Alias)
             /\ disk'.kind = "full"
             /\ disk'.doc.History = m'.history
       /\ (ev'.op = "connect" /\ ev'.save = "fail") =>
             /\ m'.sshToRun.kind = "nil"
             /\ ~m'.quitting
             /\ m'.history = m.history
             /\ m'.statusIsError]_vars

\* A connect from the history view has set the target.
ConnectedFromHistory ==
    /\ m.state = "history"
    /\ m.sshToRun.kind = "host"
    /\ ev.op = "connect" /\ ev.save = "ok"

\* C7: a container chosen for connection has a parent reference that is not
\* empty and is the identifier of a host in the host list.
ContainerTargetHasLiveParent ==
    (m.sshToRun.kind = "host" /\ m.sshToRun.host.IsContainer) =>
        /\ m.sshToRun.host.ParentID # ""
        /\ \E i \in 1..Len(m.rawHosts) : m.rawHosts[i].ID = m.sshToRun.host.ParentID

\* C8: the aliases of the top-level hosts are non-empty and pairwise distinct
\* ignoring case.
AliasesUnique ==
    /\ \A i \in 1..Len(m.rawHosts) : m.rawHosts[i].Alias # ""
    /\ \A i, j \in 1..Len(m.rawHosts) :
          i # j => ToLower(m.rawHosts[i].Alias) # ToLower(m.rawHosts[j].Alias)

\* The form has refused an alias that differs from the alias of another host
\* in case alone or not at all.
DuplicateAliasRefused ==
    /\ ev = Rejected("form", "alias already exists")
    /\ Len(m.rawHosts) = 2

\* The group names are non-empty and pairwise distinct ignoring case.
GroupNamesUnique ==
    /\ \A i \in 1..Len(m.rawGroups) : m.rawGroups[i].Name # ""
    /\ \A i, j \in 1..Len(m.rawGroups) :
          i # j => ToLower(m.rawGroups[i].Name) # ToLower(m.rawGroups[j].Name)

\* enter in the prompt with this text: a name that is the name of another
\* group, ignoring case and surrounding blanks, is refused and nothing
\* changes; in a rename, the name of the group itself in any case is not
\* refused, and is the name of the group once the save has succeeded.
PromptRule(input) ==
    LET name == TrimSpace(input)
        own == findGroupIndexByID(m.rawGroups, m.groupTarget)
        clash == \E j \in 1..Len(m.rawGroups) :
                    /\ ~(m.groupAction = "rename" /\ j = own)
                    /\ EqualFold(TrimSpace(m.rawGroups[j].Name), name)
    IN /\ clash =>
             /\ ev' = Rejected(GroupOp(m), "group name already exists")
             /\ m'.rawGroups = m.rawGroups
       /\ (m.groupAction = "rename" /\ own # 0 /\ ~clash
           /\ EqualFold(m.rawGroups[own].Name, name)) =>
             /\ ev'.save \in {"ok", "fail"}
             /\ ev'.save = "ok" => m'.rawGroups[own].Name = name

\* C9: group names stay non-empty and pairwise distinct ignoring case under
\* group create, rename and delete and under host saves that name an existing
\* or a new group; the rename of a group to its own name in another case is
\* accepted, every other clash is refused.
GroupNamesStayUnique ==
    /\ []GroupNamesUnique
    /\ [][\A input \in GroupNameInputs :
            GroupPromptEnterWith(input) => PromptRule(input)]_vars

\* A group has been renamed to its own name in capitals, another group being
\* there.
RenamedToOwnCaseVariant ==
    /\ ev.op = "groupRename" /\ ev.save = "ok"
    /\ Len(m.rawGroups) = 2
    /\ \E i \in 1..2 : m.rawGroups[i].Name = "PROD"

\* The identifiers of the rows that are hosts, not containers, and fulfil P.
HostRowIDs(rows, P(_)) ==
    LET sel == SelectSeq(rows, LAMBDA r : r.kind = "host" /\ ~r.host.IsContainer
                                           /\ P(r.host))
    IN [i \in 1..Len(sel) |-> sel[i].ID]

HostIDsWhere(hosts, P(_)) ==
    LET sel == SelectSeq(hosts, P)
    IN [i \in 1..Len(sel) |-> sel[i].ID]

\* The positions of the group rows.
GroupRowAt(rows) == {i \in 1..Len(rows) : rows[i].kind = "group"}

\* C10: flattenHosts emits the hosts of no group first, in stored order at
\* indent 0, then one row per group in stored group order; the members of an
\* expanded group follow its row at indent 1 in the order of the host list;
\* no row of a grouped host precedes a row of an ungrouped host.
FlattenOrder ==
    fnIn.op = "flattenHosts" =>
        LET rows == fnOut
            groups == fnIn.groups
            hosts == fnIn.hosts
            G == GroupRowAt(rows)
            firstGroup == IF G = {} THEN Len(rows) + 1
                          ELSE CHOOSE i \in G : \A j \in G : i <= j
            groupRows == SelectSeq(rows, LAMBDA r : r.kind = "group")
            \* the rows from a group row to the next one
            Section(k) ==
                LET start == CHOOSE i \in G :
                                 Cardinality({j \in G : j < i}) = k - 1
                    later == {j \in G : j > start}
                    stop == IF later = {} THEN Len(rows) + 1
                            ELSE CHOOSE i \in later : \A j \in later : i <= j
                IN SubSeq(rows, start + 1, stop - 1)
        IN /\ HostRowIDs(SubSeq(rows, 1, firstGroup - 1), LAMBDA h : TRUE)
                = HostIDsWhere(hosts, LAMBDA h : h.GroupID = "")
           /\ \A i \in 1..(firstGroup - 1) :
                 (rows[i].kind = "host" /\ ~rows[i].host.IsContainer) =>
                     rows[i].host.GroupID = "" /\ rows[i].host.ListIndent = 0
           /\ [i \in 1..Len(groupRows) |-> groupRows[i].group] = groups
           /\ \A k \in 1..Len(groups) :
                 /\ HostRowIDs(Section(k), LAMBDA h : TRUE)
                      = IF groups[k].Expanded
                        THEN HostIDsWhere(hosts, LAMBDA h : h.GroupID = groups[k].ID)
                        ELSE <<>>
                 /\ \A i \in 1..Len(Section(k)) :
                       (Section(k)[i].kind = "host"
                        /\ ~Section(k)[i].host.IsContainer) =>
                           /\ Section(k)[i].host.GroupID = groups[k].ID
                           /\ Section(k)[i].host.ListIndent = 1
           /\ \A i, j \in 1..Len(rows) :
                 (i < j /\ rows[i].kind = "host" /\ ~rows[i].host.IsContainer
                  /\ rows[i].host.GroupID # "") =>
                     ~(rows[j].kind = "host" /\ ~rows[j].host.IsContainer
                       /\ rows[j].host.GroupID = "")

\* A host list that begins with a member of the second group, goes on with a
\* host of no group and ends with another member, both groups expanded.
FlattenedMixedList ==
    /\ fnIn.op = "flattenHosts"
    /\ Len(fnIn.groups) = 2 /\ fnIn.groups[1].Expanded /\ fnIn.groups[2].Expanded
    /\ Len(fnIn.hosts) = 3
    /\ fnIn.hosts[1].GroupID = fnIn.groups[2].ID /\ fnIn.hosts[1].Expanded
    /\ fnIn.hosts[2].GroupID = ""
    /\ fnIn.hosts[3].GroupID = fnIn.groups[2].ID
    /\ Len(fnOut) = 6

\* The identifiers of the rows, in order.
RowIDs(rows) == [i \in 1..Len(rows) |-> rows[i].ID]

\* Row i is the row of a container.
IsContainerRow(rows, i) == rows[i].kind = "host" /\ rows[i].host.IsContainer

\* C11: in flattenHosts a collapsed group gives its row and no row of a
\* member or of a member's container; a host that is not expanded gives no
\* container rows; an expanded host is followed at once by all its containers
\* in stored order, one indent deeper. Hosts h1 (in collapsed g1) and h2 (in
\* no group) give the rows h2, g1.
CollapseRespected ==
    fnIn.op = "flattenHosts" =>
        LET rows == fnOut
            groups == fnIn.groups
            hosts == fnIn.hosts
            collapsed == {groups[k].ID : k \in {k \in 1..Len(groups) : ~groups[k].Expanded}}
            hidden == {hosts[k] : k \in {k \in 1..Len(hosts) : hosts[k].GroupID \in collapsed}}
            Stored(id) == CHOOSE h \in Range(hosts) : h.ID = id
        IN /\ \A i \in 1..Len(rows) :
                 (rows[i].kind = "group" /\ ~rows[i].group.Expanded) =>
                     (i = Len(rows) \/ rows[i + 1].kind = "group")
           /\ \A h \in hidden : \A i \in 1..Len(rows) :
                 /\ rows[i].ID # h.ID
                 /\ \A c \in 1..Len(h.Containers) : rows[i].ID # h.Containers[c].ID
           /\ \A i \in 1..Len(rows) :
                 (rows[i].kind = "host" /\ ~IsContainerRow(rows, i)) =>
                     LET h == Stored(rows[i].ID)
                         n == IF h.Expanded THEN Len(h.Containers) ELSE 0
                     IN /\ i + n <= Len(rows)
                        /\ \A c \in 1..n :
                              /\ IsContainerRow(rows, i + c)
                              /\ rows[i + c].ID = h.Containers[c].ID
                              /\ rows[i + c].host.ListIndent = rows[i].host.ListIndent + 1
                        /\ i + n = Len(rows) \/ ~IsContainerRow(rows, i + n + 1)
           /\ (/\ Len(groups) = 1 /\ groups[1].ID = "g1" /\ ~groups[1].Expanded
               /\ Len(hosts) = 2 /\ hosts[1].GroupID = "g1" /\ hosts[2].GroupID = "")
                 => RowIDs(rows) = <<"h2", "g1">>

\* The example: h1, expanded and with two containers, in collapsed g1, and
\* h2 in no group.
FlattenedCollapsedGroup ==
    /\ fnIn.op = "flattenHosts"
    /\ Len(fnIn.groups) = 1 /\ fnIn.groups[1].ID = "g1" /\ ~fnIn.groups[1].Expanded
    /\ Len(fnIn.hosts) = 2
    /\ fnIn.hosts[1].GroupID = "g1" /\ fnIn.hosts[1].Expanded
    /\ Len(fnIn.hosts[1].Containers) = 2
    /\ fnIn.hosts[2].GroupID = ""
    /\ RowIDs(fnOut) = <<"h2", "g1">>

\* C12: a host whose group reference names no group of the list is among the
\* rows, before every group row.
DanglingHostIsUngrouped ==
    fnIn.op = "flattenHosts" =>
        \A k \in 1..Len(fnIn.hosts) :
            (/\ fnIn.hosts[k].GroupID # ""
             /\ \A g \in 1..Len(fnIn.groups) : fnIn.groups[g].ID # fnIn.hosts[k].GroupID)
            => \E i \in 1..Len(fnOut) :
                  /\ fnOut[i].ID = fnIn.hosts[k].ID
                  /\ \A j \in 1..i : fnOut[j].kind # "group"

\* What a row shows: its kind, its identifier and its indent.
RowKey(r) == <<r.kind, r.ID, IF r.kind = "host" THEN r.host.ListIndent ELSE 0>>

RowKeys(rows) == [i \in 1..Len(rows) |-> RowKey(rows[i])]

\* a is b with some elements left out.
RECURSIVE IsSubsequence(_, _)
IsSubsequence(a, b) ==
    IF a = <<>> THEN TRUE
    ELSE IF b = <<>> THEN FALSE
    ELSE IF Head(a) = Head(b) THEN IsSubsequence(Tail(a), Tail(b))
    ELSE IsSubsequence(a, Tail(b))

\* The number of rows with this identifier.
RowCount(rows, id) == Cardinality({i \in 1..Len(rows) : rows[i].ID = id})

\* C13: the full projection has one row per group, per host and per
\* container whatever the expansion flags are, a grouped host at indent 1 and
\* its containers at indent 2; the collapse-respecting projection of the same
\* lists is a subsequence of it.
FullProjection ==
    fnIn.op = "flattenAll" =>
        LET all == fnOut.all
            groups == fnIn.groups
            hosts == fnIn.hosts
            listed == {groups[k].ID : k \in 1..Len(groups)}
        IN /\ \A g \in 1..Len(groups) :
                 /\ RowCount(all, groups[g].ID) = 1
                 /\ \E i \in 1..Len(all) : all[i] = GroupItem(groups[g])
           /\ \A k \in 1..Len(hosts) :
                 /\ RowCount(all, hosts[k].ID) = 1
                 /\ \A c \in 1..Len(hosts[k].Containers) :
                       RowCount(all, hosts[k].Containers[c].ID) = 1
           /\ Len(all) = Len(groups) + Len(hosts)
                 + Len(Concat([k \in 1..Len(hosts) |-> hosts[k].Containers]))
           /\ \A i \in 1..Len(all) : \A k \in 1..Len(hosts) :
                 hosts[k].GroupID \in listed =>
                     /\ all[i].ID = hosts[k].ID => all[i].host.ListIndent = 1
                     /\ \A c \in 1..Len(hosts[k].Containers) :
                           all[i].ID = hosts[k].Containers[c].ID
                               => all[i].host.ListIndent = 2
           /\ IsSubsequence(RowKeys(fnOut.visible), RowKeys(all))

\* A collapsed group whose member has containers and is not expanded, and
\* an expanded group with a member, projected both ways.
FullProjectionShowsHidden ==
    /\ fnIn.op = "flattenAll"
    /\ Len(fnIn.groups) = 2 /\ ~fnIn.groups[1].Expanded /\ fnIn.groups[2].Expanded
    /\ Len(fnIn.hosts) = 3
    /\ fnIn.hosts[1].GroupID = fnIn.groups[1].ID /\ ~fnIn.hosts[1].Expanded
    /\ Len(fnIn.hosts[1].Containers) = 2
    /\ fnIn.hosts[2].GroupID = fnIn.groups[2].ID
    /\ fnIn.hosts[3].GroupID = ""
    /\ Len(fnOut.visible) = 4 /\ Len(fnOut.all) = 7

\* The index of the selected row in the host list, 0 when it is no host of it.
SelectedHostIndex ==
    LET sel == SelectedItem(m)
        S == {i \in 1..Len(m.rawHosts) : sel.kind = "host" /\ m.rawHosts[i].ID = sel.ID}
    IN IF S = {} THEN 0 ELSE CHOOSE i \in S : TRUE

\* The hosts of the group of host idx that lie in the direction d of it with
\* no host of that group between.
NearestOfGroup(idx, d) ==
    {j \in 1..Len(m.rawHosts) :
        /\ (j - idx) * d > 0
        /\ m.rawHosts[j].GroupID = m.rawHosts[idx].GroupID
        /\ \A k \in 1..Len(m.rawHosts) :
              ((k - idx) * d > 0 /\ (j - k) * d > 0)
                  => m.rawHosts[k].GroupID # m.rawHosts[idx].GroupID}

\* moveItem(d) on the selected row, a host or a container.
HostMoveRule(d) ==
    LET sel == SelectedItem(m)
        idx == SelectedHostIndex
    IN IF sel.host.IsContainer \/ idx = 0 \/ NearestOfGroup(idx, d) = {}
       THEN /\ Persisted(m') = Persisted(m)
            /\ ev'.save = "none"
            /\ disk' = disk
            /\ ~m'.statusIsError
       ELSE \E j \in NearestOfGroup(idx, d) :
               /\ ev'.save \in {"ok", "fail"}
               /\ ev'.save = "ok" =>
                     /\ Len(m'.rawHosts) = Len(m.rawHosts)
                     /\ m'.rawHosts[idx] = m.rawHosts[j]
                     /\ m'.rawHosts[j] = m.rawHosts[idx]
                     /\ \A k \in 1..Len(m.rawHosts) :
                           k \notin {idx, j} => m'.rawHosts[k] = m.rawHosts[k]
                     /\ m'.rawGroups = m.rawGroups

SelectedGroupIndex ==
    LET sel == SelectedItem(m)
        S == {i \in 1..Len(m.rawGroups) : sel.kind = "group" /\ m.rawGroups[i].ID = sel.ID}
    IN IF S = {} THEN 0 ELSE CHOOSE i \in S : TRUE

\* moveItem(d) on the selected row, a group.
GroupMoveRule(d) ==
    LET idx == SelectedGroupIndex
        j == idx + d
    IN /\ m'.rawHosts = m.rawHosts
       /\ IF j < 1 \/ j > Len(m.rawGroups)
          THEN /\ m'.rawGroups = m.rawGroups
               /\ ev'.save = "none"
               /\ disk' = disk
          ELSE /\ ev'.save \in {"ok", "fail"}
               /\ ev'.save = "ok" =>
                     /\ Len(m'.rawGroups) = Len(m.rawGroups)
                     /\ m'.rawGroups[idx] = m.rawGroups[j]
                     /\ m'.rawGroups[j] = m.rawGroups[idx]
                     /\ \A k \in 1..Len(m.rawGroups) :
                           k \notin {idx, j} => m'.rawGroups[k] = m.rawGroups[k]

\* C15: moveItem on a group swaps it with the group next to it in the group
\* list, before it or after it; on the first group moved up and the last
\* group moved down it changes nothing and saves nothing; the host list, and
\* with it the group reference of every host, is unchanged in every case.
GroupMoveAdjacent ==
    [][/\ (ev'.op = "moveUp" /\ SelectedItem(m).kind = "group") => GroupMoveRule(-1)
       /\ (ev'.op = "moveDown" /\ SelectedItem(m).kind = "group") => GroupMoveRule(1)]_vars

\* The last group has been moved up by one place, the group list being
\* g1, g3, g2, with members in the groups.
MovedGroupUp ==
    /\ ev.op = "moveUp" /\ ev.save = "ok"
    /\ SelectedItem(m).kind = "group" /\ SelectedItem(m).ID = "g3"
    /\ [k \in 1..Len(m.rawGroups) |-> m.rawGroups[k].ID] = <<"g1", "g3", "g2">>
    /\ \E k \in 1..Len(m.rawHosts) : m.rawHosts[k].GroupID = "g2"

\* C16: the delete of a group removes that group and no other, sets the
\* group reference of each of its members to none, removes no host and leaves
\* the order of the hosts, the hosts of other groups and the other groups as
\* they are.
GroupDeleteKeepsHosts ==
    [][(ev'.op = "deleteGroup" /\ ev'.save = "ok") =>
          LET g == SelectedItem(m).ID
          IN /\ \E k \in 1..Len(m.rawGroups) : m.rawGroups[k].ID = g
             /\ m'.rawGroups = SelectSeq(m.rawGroups, LAMBDA x : x.ID # g)
             /\ Len(m'.rawHosts) = Len(m.rawHosts)
             /\ \A i \in 1..Len(m.rawHosts) :
                   m'.rawHosts[i] = IF m.rawHosts[i].GroupID = g
                                    THEN [m.rawHosts[i] EXCEPT !.GroupID = ""]
                                    ELSE m.rawHosts[i]]_vars

\* The first group has been deleted; its two members, the first host and the
\* third, are in no group, the second host is in its group.
DeletedGroupWithMembers ==
    /\ ev.op = "deleteGroup" /\ ev.save = "ok"
    /\ [k \in 1..Len(m.rawGroups) |-> m.rawGroups[k].ID] = <<"g2", "g3">>
    /\ [k \in 1..Len(m.rawHosts) |-> m.rawHosts[k].ID] = <<"h1", "h2", "h3">>
    /\ [k \in 1..Len(m.rawHosts) |-> m.rawHosts[k].GroupID] = <<"", "g2", "">>

\* The identifiers of the groups and of the hosts of the host list.
TopIDs(mm) ==
    {mm.rawGroups[k].ID : k \in 1..Len(mm.rawGroups)}
    \cup {mm.rawHosts[k].ID : k \in 1..Len(mm.rawHosts)}

\* The confirmation is armed for this row.
ArmedFor(mm, item) ==
    /\ mm.listDeleteArmed
    /\ mm.listDeleteID = item.ID
    /\ mm.listDeleteType = (IF item.kind = "group" THEN "group" ELSE "host")

\* C17: in the list view a host or a group is removed only by a delete key
\* pressed while the confirmation is armed for the selected row, its id and
\* its type; a delete key on a row the confirmation is not armed for arms it
\* for that row and removes nothing, also when it was armed for another row
\* before a scan result changed the rows; esc and every key other than d and x
\* disarm it.
DeleteNeedsConfirmation ==
    [][m.state = "list" =>
          /\ TopIDs(m) \ TopIDs(m') # {} =>
                /\ ev'.op \in {"deleteHost", "deleteGroup"}
                /\ TopIDs(m) \ TopIDs(m') = {m.listDeleteID}
          /\ ev'.op \in {"deleteHost", "deleteGroup"} => ArmedFor(m, SelectedItem(m))
          /\ ev'.op \in {"arm", "rearm"} =>
                /\ ~ArmedFor(m, SelectedItem(m))
                /\ Persisted(m') = Persisted(m)
                /\ disk' = disk
                /\ ArmedFor(m', SelectedItem(m))
          /\ ev'.op \in {"esc", "other", "key"} => ~m'.listDeleteArmed]_vars

\* d on the second host while the confirmation was armed for the container
\* that a scan result has taken from the rows: it is armed for the host, and
\* the three hosts are there.
RearmedAfterScan ==
    /\ ev.op = "rearm"
    /\ m.cursor = 2 /\ SelectedItem(m).ID = "h2"
    /\ ArmedFor(m, SelectedItem(m))
    /\ Len(m.rawHosts) = 3
    /\ m.rawHosts[1].Containers = <<>>

\* The inputs of the form fail the validation of saveFromForm: the alias is
\* empty, or is the alias of another host ignoring case, or "+ New group..."
\* is selected and no name is given.
FormInvalid(inp) ==
    \/ TrimSpace(inp.alias) = ""
    \/ \E i \in 1..Len(m.rawHosts) :
          /\ ToLower(TrimSpace(m.rawHosts[i].Alias)) = ToLower(TrimSpace(inp.alias))
          /\ (m.selectedHost.kind = "nil" \/ m.rawHosts[i].ID # m.selectedHost.ID)
    \/ (~inp.groupCustom /\ inp.group = "+ New group...")

\* The text of the prompt fails its validation: the name is empty or is the
\* name of another group ignoring case.
PromptInvalid(input) ==
    \/ TrimSpace(input) = ""
    \/ \E j \in 1..Len(m.rawGroups) :
          /\ ~(m.groupAction = "rename" /\ m.rawGroups[j].ID = m.groupTarget)
          /\ ToLower(TrimSpace(m.rawGroups[j].Name)) = ToLower(TrimSpace(input))

\* The handler has refused the input, changed nothing and saved nothing.
RefusedUntouched ==
    /\ ev'.error # "" /\ ev'.save = "none"
    /\ Persisted(m') = Persisted(m)
    /\ disk' = disk /\ tmp' = tmp

\* C18: a validation failure of saveFromForm (empty alias, alias of another
\* host ignoring case, "+ New group..." without a name) or of the group prompt
\* (empty name, name of another group ignoring case) leaves groups, hosts and
\* history as they are and attempts no save.
ValidationFailureChangesNothing ==
    [][/\ InState("form") =>
             \A inp \in FormInputs(m) :
                 (FormInvalid(inp) /\ FormSaveWith(inp)) => RefusedUntouched
       /\ InState("groupPrompt") =>
             \A input \in GroupNameInputs :
                 (PromptInvalid(input) /\ GroupPromptEnterWith(input))
                     => RefusedUntouched]_vars

\* The form has refused "+ New group..." without a name, hosts being there.
NewGroupWithoutNameRefused ==
    /\ ev = Rejected("form", "new group selected but name not provided")
    /\ m.state = "form"
    /\ Len(m.rawHosts) > 0

Digits == <<"0", "1", "2", "3", "4", "5", "6", "7", "8", "9">>

\* The number a text of decimal digits stands for.
RECURSIVE DecimalValue(_)
DecimalValue(text) ==
    IF text = <<>> THEN 0
    ELSE 10 * DecimalValue(SubSeq(text, 1, Len(text) - 1))
         + ((CHOOSE d \in 1..10 : Digits[d] = text[Len(text)]) - 1)

\* The port is empty or a decimal integer in 1..65535.
ValidPort(text) ==
    \/ text = <<>>
    \/ /\ \A i \in 1..Len(text) : text[i] \in Range(Digits)
       /\ DecimalValue(text) \in 1..65535

\* C19: saveFromForm refuses every port that is not empty and not a decimal
\* integer in 1..65535, so that no host of the host list has such a port.
PortsValid ==
    \A i \in 1..Len(m.rawHosts) : ValidPort(m.rawHosts[i].Port)

\* A file that is there and can be read.
FileExists(file) == file.kind \notin {"absent", "denied"}

\* The bytes are a document, with or without a version, or a list of hosts.
AcceptedShape(file) == file.kind \in {"full", "list"}

\* The file loadConfig reads: the canonical one, or the legacy one when the
\* canonical one does not exist.
FileRead == IF fnIn.canonical.kind = "absent" THEN fnIn.legacy ELSE fnIn.canonical

\* C20: with neither file there loadConfig returns no error, no groups, no
\* history and the one seeded host Localhost; with a file there whose bytes
\* have none of the accepted shapes it returns the invalid-format error and
\* no groups, hosts or history.
LoadContract ==
    fnIn.op = "loadConfig" =>
        /\ (fnIn.canonical.kind = "absent" /\ fnIn.legacy.kind = "absent") =>
              /\ fnOut.error = ""
              /\ fnOut.groups = <<>> /\ fnOut.history = <<>>
              /\ Len(fnOut.hosts) = 1 /\ fnOut.hosts[1].Alias = "Localhost"
        /\ (FileExists(FileRead) /\ ~AcceptedShape(FileRead)) =>
              /\ fnOut.error = "invalid config format"
              /\ fnOut.groups = <<>> /\ fnOut.hosts = <<>> /\ fnOut.history = <<>>

\* C21: loadConfig returns without error the content of every document, with
\* or without a version (its lists empty or not), and of every bare list of
\* hosts, the latter with no groups and no history.
LoadAcceptsShapes ==
    (fnIn.op = "loadConfig" /\ AcceptedShape(fnIn.canonical)) =>
        /\ fnOut.error = ""
        /\ fnIn.canonical.kind = "full" =>
              /\ fnOut.groups = fnIn.canonical.doc.Groups
              /\ fnOut.hosts = DecodeHosts(fnIn.canonical.doc.Hosts)
              /\ fnOut.history = fnIn.canonical.doc.History
        /\ fnIn.canonical.kind = "list" =>
              /\ fnOut.groups = <<>> /\ fnOut.history = <<>>
              /\ fnOut.hosts = DecodeHosts(fnIn.canonical.hosts)

\* The fields of hosts that are neither secrets nor transient, containers
\* included and in their order.
RECURSIVE PlainFields(_)
PlainFields(hosts) ==
    [i \in 1..Len(hosts) |->
        [ID |-> hosts[i].ID, Alias |-> hosts[i].Alias,
         Hostname |-> hosts[i].Hostname, Port |-> hosts[i].Port,
         GroupID |-> hosts[i].GroupID, IsContainer |-> hosts[i].IsContainer,
         Containers |-> PlainFields(hosts[i].Containers)]]

\* The secrets of hosts, containers included.
RECURSIVE SecretFields(_)
SecretFields(hosts) ==
    [i \in 1..Len(hosts) |->
        [Password |-> hosts[i].Password, PasswordRef |-> hosts[i].PasswordRef,
         Containers |-> SecretFields(hosts[i].Containers)]]

\* The policy of the save that wrote the file.
LastPolicy == fnIn.persist[Len(fnIn.persist)]

RECURSIVE NoSecrets(_)
NoSecrets(stored) ==
    \A i \in 1..Len(stored) :
        /\ stored[i].Password = "" /\ stored[i].PasswordRef = ""
        /\ NoSecrets(stored[i].Containers)

\* C23: a file written by a save made while the policy disables the storage
\* of secrets holds no password and no reference, at any depth; the policy
\* is that of the moment of the save, whatever it was at an earlier save.
ScrubbedWhenDisabled ==
    (fnIn.op \in {"saved", "loaded"} /\ disk.kind = "full" /\ ~LastPolicy) =>
        NoSecrets(disk.doc.Hosts)

\* The second save was made with the storage disabled after a first one with
\* the storage enabled, of a host and a container that hold secrets.
ScrubbedOnSecondSave ==
    /\ fnIn.op = "saved" /\ fnIn.persist = <<TRUE, FALSE>>
    /\ disk.kind = "full"
    /\ Len(fnIn.hosts) = 2
    /\ fnIn.hosts[1].Password # ""
    /\ fnIn.hosts[1].Containers[1].PasswordRef # ""

\* No host of a stored list, at any depth, has a password.
RECURSIVE NoPlaintext(_)
NoPlaintext(stored) ==
    \A i \in 1..Len(stored) :
        stored[i].Password = "" /\ NoPlaintext(stored[i].Containers)

\* C24: whatever the keychain answers, the file a save has written holds no
\* password of a host or of a container.
NeverPlaintextOnDisk ==
    (fnIn.op \in {"saved", "loaded"} /\ disk.kind = "full") =>
        NoPlaintext(disk.doc.Hosts)

\* The alias as importSSHConfig compares it.
ImportKey(alias) == ToLower(TrimSpace(alias))

\* The blocks of the file whose alias is that of no existing host and of no
\* earlier block.
KeptBlocks ==
    {i \in 1..Len(fnIn.parsed) :
        /\ \A k \in 1..Len(fnIn.existing) :
              ImportKey(fnIn.existing[k].Alias) # ImportKey(fnIn.parsed[i])
        /\ \A j \in 1..(i - 1) :
              ImportKey(fnIn.parsed[j]) # ImportKey(fnIn.parsed[i])}

\* C25: importSSHConfig returns, in the order parsed, exactly the hosts whose
\* alias, trimmed and ignoring case, is that of no existing host and of no
\* earlier host of the batch, and skipped counts the others.
ImportFiltersDuplicates ==
    fnIn.op = "importSSHConfig" =>
        /\ Len(fnOut.imported) = Cardinality(KeptBlocks)
        /\ \A i \in KeptBlocks :
              fnOut.imported[Cardinality({j \in KeptBlocks : j <= i})] = fnIn.parsed[i]
        /\ fnOut.skipped = Len(fnIn.parsed) - Len(fnOut.imported)

\* With Existing-Host there, the blocks existing-host, new-host and
\* EXISTING-HOST have given new-host and two skipped.
ImportedNewHostOnly ==
    /\ fnIn.op = "importSSHConfig"
    /\ Len(fnIn.existing) = 1 /\ fnIn.existing[1].Alias = "Existing-Host"
    /\ fnIn.parsed = <<"existing-host", "new-host", "EXISTING-HOST">>
    /\ fnOut = [imported |-> <<"new-host">>, skipped |-> 2]

\* C26: an import that follows, with nothing in between, an import of the
\* same file that was appended and saved adds no host, and reports as
\* skipped the number of hosts parsed from the file.
ReimportAddsNothing ==
    [][(ev.op = "import" /\ ev.save = "ok" /\ ImportFile) =>
          /\ m'.rawHosts = m.rawHosts
          /\ ev'.save = "ok" =>
                m'.statusMessage = ImportedMessage(0, Len(fnIn.parsed))]_vars

\* The file of three blocks has been imported again after new-host came in
\* from it.
ReimportedThreeBlocks ==
    /\ ev.op = "import" /\ ev.save = "ok"
    /\ Len(fnIn.parsed) = 3
    /\ m.statusMessage = ImportedMessage(0, 3)
    /\ \E i \in 1..Len(m.rawHosts) : m.rawHosts[i].Alias = "new-host"

\* The hosts exportSSHConfig was given.
ExportedFrom == fnIn.before[2]

\* The aliases the Host lines of a file give, lower-cased, the separator
\* being a blank or "=", patterns left out.
HostAliasesOf(lines) ==
    UNION {{ToLower(lines[i].args[k]) :
                k \in {n \in 1..Len(lines[i].args) :
                          lines[i].args[n] \notin {"*", "10.0.*", "web?"}}} :
              i \in {n \in 1..Len(lines) :
                        lines[n].kw \in {"Host ", "host ", "HOST ", "Host="}}}

\* The host is no container and has an alias and a hostname.
Eligible(h) == ~h.IsContainer /\ h.Alias # "" /\ h.Hostname # ""

\* The hosts to write: eligible, their alias neither in the file nor that of
\* an earlier eligible host.
ToExport ==
    {i \in 1..Len(ExportedFrom) :
        /\ Eligible(ExportedFrom[i])
        /\ ToLower(ExportedFrom[i].Alias) \notin HostAliasesOf(fnIn.file.lines)
        /\ \A j \in 1..(i - 1) :
              Eligible(ExportedFrom[j]) =>
                  ToLower(ExportedFrom[j].Alias) # ToLower(ExportedFrom[i].Alias)}

\* The lines exportSSHConfig has added to the file.
AddedLines ==
    SubSeq(fnOut.file.lines, Len(fnIn.file.lines) + 1, Len(fnOut.file.lines))

\* The aliases of the blocks added, in their order.
AddedAliases ==
    LET hostLines == SelectSeq(AddedLines, LAMBDA l : l.kw = "Host ")
    IN [k \in 1..Len(hostLines) |-> hostLines[k].args[1]]

\* C27: exportSSHConfig writes one block for each eligible host whose alias,
\* ignoring case, is neither a Host alias of the file nor written earlier in
\* the export, counts in skipped the eligible hosts left out, and counts
\* containers and hosts without alias or hostname in neither number.
ExportWritesNewHosts ==
    (fnIn.op = "export" /\ ~fnOut.err) =>
        /\ fnOut.exported = Cardinality(ToExport)
        /\ Len(AddedAliases) = Cardinality(ToExport)
        /\ \A i \in ToExport :
              AddedAliases[Cardinality({j \in ToExport : j <= i})]
                  = ExportedFrom[i].Alias
        /\ fnOut.exported + fnOut.skipped
              = Cardinality({i \in 1..Len(ExportedFrom) : Eligible(ExportedFrom[i])})

\* C28: after exportSSHConfig the lines the file had are the first lines it
\* has, the file is as it was when no host was exported, and groups, hosts
\* and history are those of before the export.
ExportAppendsOnly ==
    fnIn.op = "export" =>
        /\ Len(fnIn.file.lines) <= Len(fnOut.file.lines)
        /\ SubSeq(fnOut.file.lines, 1, Len(fnIn.file.lines)) = fnIn.file.lines
        /\ fnOut.exported = 0 => fnOut.file = fnIn.file
        /\ <<m.rawGroups, m.rawHosts, m.history>> = fnIn.before

\* Two blocks have been added to a file that held lines, the last of them
\* not terminated.
ExportedAfterExistingLines ==
    /\ fnIn.op = "export" /\ ~fnOut.err
    /\ fnIn.file.lines # <<>> /\ ~fnIn.file.nl
    /\ fnOut.exported = 2
    /\ Len(fnOut.file.lines) > Len(fnIn.file.lines)

\* C29: when the history view has been rebuilt, every entry of the stored
\* history is that of a host or container there is: the entries of the
\* others have been removed.
HistoryPrunedOnRebuild ==
    ev.op = "history" =>
        \A i \in 1..Len(m.history) : m.history[i].HostID \in HostIDsOf(m.rawHosts)

\* What a well-formed file holds: groups, hosts, history.
ContentOf(file) ==
    IF file.kind = "full"
    THEN <<file.doc.Groups, DecodeHosts(file.doc.Hosts), file.doc.History>>
    ELSE <<<<>>, DecodeHosts(file.hosts), <<>>>>

Returned(r) == <<r.groups, r.hosts, r.history>>

\* C30: with no canonical file and a legacy file, loadConfig returns the
\* content of the legacy document and saves it at the canonical path, which
\* the next load then reads whatever has become of the legacy file; when the
\* save fails it returns an error and the content all the same; with a
\* canonical file the legacy file plays no part.
LegacyMigratedOnce ==
    /\ (fnIn.op = "loadConfig" /\ fnIn.canonical.kind = "absent"
            /\ AcceptedShape(fnIn.legacy)) =>
          /\ Returned(fnOut) = ContentOf(fnIn.legacy)
          /\ fnIn.fail = "none" =>
                /\ fnOut.error = ""
                /\ disk.kind = "full" /\ ContentOf(disk) = ContentOf(fnIn.legacy)
          /\ fnIn.fail # "none" => fnOut.error # "" /\ disk = Absent
    /\ (fnIn.op = "again" /\ fnIn.canonical.kind = "absent"
            /\ AcceptedShape(fnIn.legacy) /\ fnIn.fail = "none") =>
          /\ fnOut.second.error = ""
          /\ Returned(fnOut.second) = ContentOf(fnIn.legacy)
    /\ (fnIn.op = "loadConfig" /\ fnIn.canonical.kind # "absent") =>
          /\ disk = fnIn.canonical /\ tmp = Absent
          /\ \A legacy \in LoadFiles :
                LET r == loadConfigPaths(legacy, {}, {"h1"}, storePassword, TRUE,
                                         fnIn.fail, [disk |-> fnIn.canonical, tmp |-> Absent])
                IN Returned(r) = Returned(fnOut) /\ r.error = fnOut.error

\* C31: the containers a scan has found are stored on the host the scan was
\* started for: every container of the host list is under the host whose
\* identifier it carries as its parent.
ScanStoredOnItsHost ==
    \A i \in 1..Len(m.rawHosts) :
        \A k \in 1..Len(m.rawHosts[i].Containers) :
            m.rawHosts[i].Containers[k].ParentID \in {"", m.rawHosts[i].ID}

\* The group reference of every host is empty or the identifier of a group of
\* the group list, and no container has one.
GroupRefsValid(mm) ==
    \A i \in 1..Len(mm.rawHosts) :
        /\ mm.rawHosts[i].GroupID
              \in {""} \cup {mm.rawGroups[k].ID : k \in 1..Len(mm.rawGroups)}
        /\ \A c \in 1..Len(mm.rawHosts[i].Containers) :
              mm.rawHosts[i].Containers[c].GroupID = ""

\* C32: whatever the user does (create and edit hosts, create, rename and
\* delete groups, reorder, import, with saves that fail and are rolled back),
\* the group reference of every host is empty or names a group that exists,
\* and no container has a group reference.
GroupRefsStayValid == GroupRefsValid(m)

\* A group that had a member has been deleted, and the deletion was saved.
DeletedGroupOfMember ==
    /\ ev.op = "deleteGroup" /\ ev.save = "ok"
    /\ Len(m.rawHosts) > 0 /\ Len(m.rawGroups) > 0
    /\ \E i \in 1..Len(m.rawHosts) : m.rawHosts[i].GroupID # ""
    /\ \E i \in 1..Len(m.rawHosts) : m.rawHosts[i].GroupID = ""

\* The keyword of a line as the format has it: the text before the blank,
\* the tab or the = that separates it from the arguments, in lower case.
Directive(line) == ToLower(KeywordText(line.kw))

IsHostLine(line) == Directive(line) = "host"
IsMatchLine(line) == Directive(line) = "match"
IsKeyValueLine(line) ==
    line.kw \notin {"", "# "} /\ ~IsHostLine(line) /\ ~IsMatchLine(line)

\* The aliases of a Host line that are no patterns.
PlainAliases(line) == SelectSeq(line.args, LAMBDA a : ~isWildcard(a))

\* The Host or Match line that governs line i: the last one before it, 0
\* when there is none.
Governing(lines, i) ==
    LET before == {j \in 1..(i - 1) : IsHostLine(lines[j]) \/ IsMatchLine(lines[j])}
    IN IF before = {} THEN 0 ELSE CHOOSE j \in before : \A k \in before : k <= j

\* Line i is a key-value line the parser has to ignore: it stands before the
\* first Host line, after a Match line, or after a Host line of patterns only.
IgnoredLine(lines, i) ==
    /\ IsKeyValueLine(lines[i])
    /\ LET g == Governing(lines, i)
       IN \/ g = 0
          \/ IsMatchLine(lines[g])
          \/ PlainAliases(lines[g]) = <<>>

\* The file without its Match lines and without the lines to ignore.
RECURSIVE KeepLines(_, _)
KeepLines(lines, i) ==
    IF i > Len(lines) THEN <<>>
    ELSE (IF IgnoredLine(lines, i) \/ IsMatchLine(lines[i])
          THEN <<>> ELSE <<lines[i]>>) \o KeepLines(lines, i + 1)

IsPrefix(s, t) == Len(s) <= Len(t) /\ SubSeq(t, 1, Len(s)) = s

\* C33: the key-value lines before the first Host line, after a Match line
\* and after a Host line with patterns only change nothing: the result is
\* that of the file without them and without the Match lines, so that the
\* block a Match line ends is kept; and the lines from a Host line on never
\* change the hosts of the blocks before it.
ParseScopesLines ==
    fnIn.op = "parseSSHConfig" =>
        /\ fnOut = parseSSHConfig(KeepLines(fnIn.lines, 1))
        /\ \A i \in 1..Len(fnIn.lines) :
              IsHostLine(fnIn.lines[i]) =>
                  IsPrefix(parseSSHConfig(SubSeq(fnIn.lines, 1, i - 1)), fnOut)

\* The words the block of the Host line i gives for a keyword: those of the
\* last line with it among the lines the Host line governs.
BlockSetting(lines, i, key) ==
    LET own == {j \in (i + 1)..Len(lines) :
                   Governing(lines, j) = i /\ Directive(lines[j]) = key}
    IN IF own = {} THEN <<>>
       ELSE lines[CHOOSE j \in own : \A k \in own : k <= j].args

\* The hosts the Host line i stands for.
HostsOfLine(lines, i) ==
    LET aliases == PlainAliases(lines[i])
        hostname == BlockSetting(lines, i, "hostname")
        port == BlockSetting(lines, i, "port")
    IN [k \in 1..Len(aliases) |->
          [Alias |-> aliases[k],
           Hostname |-> IF hostname = <<>> THEN <<aliases[k]>> ELSE hostname,
           User |-> BlockSetting(lines, i, "user"),
           Port |-> IF port = <<>> THEN <<"22">> ELSE port,
           IdentityFile |-> BlockSetting(lines, i, "identityfile")]]

\* C34: the hosts of a file are, Host line after Host line and alias after
\* alias, one host for each alias that is no pattern, with the hostname, the
\* user, the port and the identity file of its block, the alias for a
\* hostname the block does not give and 22 for a port it does not give.
ParseYieldsHostPerAlias ==
    fnIn.op = "parseSSHConfig" =>
        fnOut = Concat([i \in 1..Len(fnIn.lines) |->
                          IF IsHostLine(fnIn.lines[i])
                          THEN HostsOfLine(fnIn.lines, i) ELSE <<>>])

\* The identifiers of the hosts and of their containers.
LiveIDs(mm) ==
    UNION {{mm.rawHosts[k].ID}
           \cup {mm.rawHosts[k].Containers[c].ID :
                    c \in 1..Len(mm.rawHosts[k].Containers)} :
              k \in 1..Len(mm.rawHosts)}

\* The row of the history view stands for a host that no longer exists.
PlaceholderRow(mm, i) == i.kind = "host" /\ i.ID \notin LiveIDs(mm)

\* C35: in the history view, the row of a history entry whose host no longer
\* exists is a placeholder built of the alias the entry has cached: it has no
\* hostname, so that enter on it does nothing, and its alias is the cached one
\* marked as deleted.
GoneHostShownAsPlaceholder ==
    (m.state = "history" /\ ~m.quitting /\ m.sshToRun.kind = "nil") =>
        \A n \in 1..Len(m.historyItems) :
            PlaceholderRow(m, m.historyItems[n]) =>
                /\ m.historyItems[n].host.Hostname = ""
                /\ \E k \in 1..Len(m.history) :
                      /\ m.history[k].HostID = m.historyItems[n].ID
                      /\ m.historyItems[n].host.Alias
                            = m.history[k].Alias \o " (deleted)"

\* The file initialModel reads: the canonical one, the legacy one when there
\* is no canonical one.
StartSource == IF fnIn.canonical.kind = "absent" THEN fnIn.legacy ELSE fnIn.canonical

\* The groups and the hosts of the document of that file.
StartDocHosts ==
    CASE StartSource.kind = "full" -> DecodeHosts(StartSource.doc.Hosts)
      [] StartSource.kind = "list" -> DecodeHosts(StartSource.hosts)
      [] OTHER -> <<>>
StartDocGroups ==
    IF StartSource.kind = "full" THEN StartSource.doc.Groups ELSE <<>>

\* An identifier of the document is missing.
IDMissing ==
    \/ "" \in HostIDsOf(StartDocHosts)
    \/ \E k \in 1..Len(StartDocGroups) : StartDocGroups[k].ID = ""

\* Every identifier is there, and those of the document are the ones it had.
RECURSIVE IDsKept(_, _)
IDsKept(before, after) ==
    /\ Len(after) = Len(before)
    /\ \A k \in 1..Len(before) :
          /\ after[k].ID # ""
          /\ before[k].ID # "" => after[k].ID = before[k].ID
          /\ IDsKept(before[k].Containers, after[k].Containers)

StartIDsAssigned ==
    /\ "" \notin HostIDsOf(fnOut.hosts)
    /\ \A k \in 1..Len(fnOut.groups) : fnOut.groups[k].ID # ""
    /\ StartSource.kind \in {"full", "list"} =>
          /\ IDsKept(StartDocHosts, fnOut.hosts)
          /\ Len(fnOut.groups) = Len(StartDocGroups)
          /\ \A k \in 1..Len(StartDocGroups) :
                StartDocGroups[k].ID # "" => fnOut.groups[k].ID = StartDocGroups[k].ID

\* A save has been run at start: the canonical file or the temporary file is
\* not what it was.
StartSaved == disk # fnIn.canonical \/ tmp # Absent

\* The document has been read from the legacy path.
StartMigrated ==
    /\ fnIn.canonical.kind = "absent"
    /\ fnIn.legacy.kind \in {"full", "list"}

\* C36 as stated: after initialModel every group, host and container has an
\* identifier, the identifiers of the document are kept, and the document is
\* saved at start exactly when an identifier had to be assigned.
StartSavesIffIDAssigned ==
    fnIn.op = "initialModel" =>
        /\ StartIDsAssigned
        /\ StartSaved <=> IDMissing

\* C36, amended: the document is saved at start exactly when an identifier
\* had to be assigned or the document has been read from the legacy path.
StartSavesIffIDAssignedOrMigrated ==
    fnIn.op = "initialModel" =>
        /\ StartIDsAssigned
        /\ StartSaved <=> (IDMissing \/ StartMigrated)

\* The canonical document had the identifier of its host and of its group and
\* none for the container; the container has got one, the others are kept,
\* and the document has been saved with it.
StartAssignedContainerID ==
    /\ fnIn.op = "initialModel"
    /\ fnIn.canonical.kind = "full"
    /\ HostIDsOf(StartDocHosts) = {"h1", ""}
    /\ fnOut.hosts[1].ID = "h1" /\ fnOut.hosts[1].Containers[1].ID # ""
    /\ disk.kind = "full" /\ disk # fnIn.canonical
    /\ "" \notin HostIDsOf(DecodeHosts(disk.doc.Hosts))

\* The form saved with these inputs has edited the selected host in place: its
\* identifier, its place, its containers and its expansion are kept, and the
\* other hosts are as they were.
EditedInPlace(inp) ==
    /\ Len(m'.rawHosts) = Len(m.rawHosts)
    /\ \A k \in 1..Len(m.rawHosts) :
          IF m.rawHosts[k].ID = m.selectedHost.ID
          THEN /\ m'.rawHosts[k].ID = m.rawHosts[k].ID
               /\ m'.rawHosts[k].Containers = m.rawHosts[k].Containers
               /\ m'.rawHosts[k].Expanded = m.rawHosts[k].Expanded
               /\ m'.rawHosts[k].Alias = TrimSpace(inp.alias)
          ELSE m'.rawHosts[k] = m.rawHosts[k]

\* The form saved with these inputs has put a new host after the others, with
\* an identifier no host, container or group had, and without containers.
AppendedAtEnd(inp) ==
    LET n == Len(m.rawHosts)
    IN /\ Len(m'.rawHosts) = n + 1
       /\ SubSeq(m'.rawHosts, 1, n) = m.rawHosts
       /\ m'.rawHosts[n + 1].ID \notin UsedIDs \cup {""}
       /\ m'.rawHosts[n + 1].Containers = <<>>
       /\ m'.rawHosts[n + 1].Alias = TrimSpace(inp.alias)

\* C37: a host edited through the form keeps its identifier, its place in the
\* host list, its containers and its expansion, and no other host changes; a
\* host created through the form is put at the end of the host list, with a
\* new identifier and no containers.
FormEditsInPlace ==
    [][InState("form") =>
          \A inp \in FormInputs(m) :
             (formValidate(m, inp) = "" /\ FormSaveWith(inp) /\ ev'.save = "ok") =>
                 IF m.selectedHost.kind = "nil"
                 THEN AppendedAtEnd(inp) ELSE EditedInPlace(inp)]_vars

\* The first host, expanded and with its container, has been edited to the
\* alias api and moved out of its group; the second host is as it was.
EditedExpandedHost ==
    /\ ev.op = "form" /\ ev.save = "ok"
    /\ Len(m.rawHosts) = 2
    /\ m.rawHosts[1].ID = IDName(1) /\ m.rawHosts[1].Alias = "api"
    /\ m.rawHosts[1].GroupID = "" /\ m.rawHosts[1].Expanded
    /\ Len(m.rawHosts[1].Containers) = 1
    /\ m.rawHosts[2] = NewHost(IDName(4), "db", "10.0.0.1", "", "")

\* C38: whatever the policy, the keychain and the outcome of the save, the
\* arrays of hosts and containers the program had in memory before saveConfig
\* are the same after it, so that every host and container has the fields it
\* had; what is scrubbed and redirected to the keychain is the copy, which is
\* what is written.
SaveLeavesMemory ==
    fnIn.op = "saveConfig" =>
        /\ SubSeq(fnOut.after, 1, Len(fnOut.before)) = fnOut.before
        /\ sliceValue(fnOut.after, fnOut.hosts) = fnIn.hosts
        /\ fnOut.reached =>
              sliceValue(fnOut.after, fnOut.sanitized)
                  = sanitizeHostsForSave(fnIn.hosts, storePassword, fnIn.storeOK)
        /\ ~fnOut.err =>
              disk.doc.Hosts = EncodeHosts(sliceValue(fnOut.after, fnOut.sanitized))

\* A host and its container had passwords, storing passwords is disabled and
\* the save has succeeded: the written copy has no password, the hosts in
\* memory have theirs.
SavedScrubbedCopy ==
    /\ fnIn.op = "saveConfig" /\ ~fnOut.err /\ ~storePassword
    /\ Len(fnIn.hosts) = 2
    /\ fnIn.hosts[1].Password = Secret
    /\ fnIn.hosts[1].Containers[1].Password = Secret
    /\ sliceValue(fnOut.after, fnOut.hosts)[1].Containers[1].Password = Secret
    /\ sliceValue(fnOut.after, fnOut.sanitized)[1].Containers[1].Password = ""
    /\ disk.kind = "full" /\ disk.doc.Hosts[1].Password = ""

\* C39: when the same hosts are exported twice in a row and both calls
\* succeed, the second call exports nothing and leaves the file as the first
\* call has left it.
SecondExportAddsNothing ==
    (fnIn.op = "again" /\ ~fnOut.first.err /\ ~fnOut.second.err) =>
        /\ fnOut.second.exported = 0
        /\ fnOut.second.file = fnOut.first.file

============================================================================
